---- MODULE Spec2Model ----
(***************************************************************************)
(* Model of tk_clientes_pedidos: the SQLite gateway (db.py), the model     *)
(* layer built on it (models.py) and the order form (views/pedidos_view).  *)
(*                                                                         *)
(* Amounts (preco_unit, total) are exact numbers of cents; SQLite stores   *)
(* a REAL as the same 8-byte float Python hands it, so a stored amount     *)
(* reads back as the value written.                                        *)
(***************************************************************************)
EXTENDS Integers, Sequences, FiniteSets, TLC

VARIABLES
    db,        \* committed content of app_database.db
    conns,     \* connections opened by a caller of the gateway (conn=...)
    gwOpen,    \* number of connections execute_query opened and left open
    lastCall,  \* the last operation: its arguments, outcome and db events
    form,      \* the PedidoFormWindow, when one is open
    app        \* the App controller of main.py and the widgets of its screens

vars == <<db, conns, gwOpen, lastCall, form, app>>

(***************************************************************************)
(* Bounds of the model.                                                    *)
(***************************************************************************)
\* rows ever inserted over the three tables (AUTOINCREMENT never reuses ids)
MaxRows == 4
\* the customers inserted in the runs of the customers table
MaxClienteRows == 3
\* rows ever inserted when the gateway is exercised on its own
MaxGatewayRows == 2
\* the line items of an exported order
MaxExportItens == 2
\* items ever added to one order form (item_counter)
MaxCounter == 3
\* rows ever inserted under the controller
MaxAppRows == 3

\* the lines of the action log
MaxLogLines == 4

\* analysis threads alive at the same time
MaxWorkers == 2

(***************************************************************************)
(* Values.                                                                 *)
(***************************************************************************)
NULL == "NULL"
None == "None"
NoExc == "none"

Nomes == {"Ana", "Bia"}
\* the email of a customer: absent, or an address
Emails == {NULL, "ana@x.com"}
Datas == {"2025-01-10"}
\* the total of an order payload: the sum of Widget and Gadget, and another
Totals == {2498, 100}

\* the item dicts of an order payload; produto NULL violates NOT NULL on insert
ItemWidget == [produto |-> "Widget", quantidade |-> 2, preco_unit |-> 999]

ItemGadget == [produto |-> "Gadget", quantidade |-> 1, preco_unit |-> 500]

ItemNoProduct == [produto |-> NULL, quantidade |-> 1, preco_unit |-> 500]

Items == {ItemWidget, ItemGadget, ItemNoProduct}

\* an id no row has
MissingIds == {99}

Max(a, b) == IF a >= b THEN a ELSE b

MaxOf(S) == IF S = {} THEN 0 ELSE CHOOSE x \in S : \A y \in S : y <= x

\* the rows of a table in rowid order, as a cursor scans them
\* F at the value of v, which is computed once
Bind(v, F(_)) == CHOOSE y \in {F(x) : x \in {v}} : TRUE

RECURSIVE SortById(_)
SortById(rows) ==
    IF rows = {} THEN <<>>
    ELSE LET r == CHOOSE x \in rows : \A y \in rows : x.id <= y.id
         IN <<r>> \o SortById(rows \ {r})

(***************************************************************************)
(* The schema of init_db and the statements models.py sends.               *)
(***************************************************************************)
EmptyDb ==
    [clientes |-> {}, pedidos |-> {}, itens |-> {},
     seq |-> [clientes |-> 0, pedidos |-> 0, itens |-> 0]]

Q_SELECT_CLIENTES == "SELECT id, nome, email, telefone FROM clientes"
Q_SELECT_CLIENTES_LIKE == "SELECT id, nome, email, telefone FROM clientes WHERE nome LIKE ? OR email LIKE ? "
Q_INSERT_CLIENTE == "INSERT INTO clientes (nome, email, telefone) VALUES (?, ?, ?)"
Q_UPDATE_CLIENTE == "UPDATE clientes SET nome = ?, email = ?, telefone = ? WHERE id = ?"
Q_SELECT_1_PEDIDOS == "SELECT 1 FROM pedidos WHERE cliente_id = ?"
Q_DELETE_CLIENTE == "DELETE FROM clientes WHERE id = ?"
Q_SELECT_PEDIDO == "SELECT id, cliente_id, data, total FROM pedidos WHERE id = ?"
Q_SELECT_ITENS == "SELECT produto, quantidade, preco_unit FROM itens_pedido WHERE pedido_id = ?"
Q_SELECT_PEDIDOS_JOIN ==
    "SELECT p.id, c.nome, p.data, p.total FROM pedidos p JOIN clientes c ON p.cliente_id = c.id"
Q_SELECT_PEDIDOS_JOIN_LIKE ==
    "SELECT p.id, c.nome, p.data, p.total FROM pedidos p JOIN clientes c ON p.cliente_id = c.id WHERE c.nome LIKE ? OR p.id LIKE ?"
Q_INSERT_PEDIDO == "INSERT INTO pedidos (cliente_id, data, total) VALUES (?, ?, ?)"
Q_INSERT_ITEM == "INSERT INTO itens_pedido (pedido_id, produto, quantidade, preco_unit) VALUES (?, ?, ?, ?)"
Q_UPDATE_PEDIDO == "UPDATE pedidos SET cliente_id = ?, data = ?, total = ? WHERE id = ?"
Q_DELETE_ITENS == "DELETE FROM itens_pedido WHERE pedido_id = ?"
Q_DELETE_PEDIDO == "DELETE FROM pedidos WHERE id = ?"
Q_COMMIT == "COMMIT"
Q_ROLLBACK == "ROLLBACK"

\* INSERT, UPDATE and DELETE: the sqlite3 module opens a transaction before them
IsDml(q) ==
    q \in {Q_INSERT_CLIENTE, Q_DELETE_CLIENTE, Q_INSERT_PEDIDO, Q_INSERT_ITEM,
           Q_UPDATE_PEDIDO, Q_DELETE_ITENS, Q_DELETE_PEDIDO}

E_NOT_NULL == "IntegrityError: NOT NULL constraint failed"
E_UNIQUE == "IntegrityError: UNIQUE constraint failed"
E_FOREIGN_KEY == "IntegrityError: FOREIGN KEY constraint failed"
E_LOCKED == "OperationalError: database is locked"
E_NO_TXN == "OperationalError: no transaction is active"
E_IO == "OperationalError: disk I/O error"
E_CLOSED == "ProgrammingError: Cannot operate on a closed database."
E_OVERFLOW == "OverflowError: Python int too large to convert to SQLite INTEGER"
E_TYPE == "TypeError: execute_query() got an unexpected keyword argument"
E_NO_ID == "Exception: Nao foi possivel obter o ID do novo pedido."

\* the exceptions that derive from sqlite3.Error
IsSqliteError(e) == e \in {E_NOT_NULL, E_UNIQUE, E_FOREIGN_KEY, E_LOCKED, E_NO_TXN, E_IO, E_CLOSED}

\* the letters of the texts of the model, lower-cased as LIKE compares them
LowerChars(s) ==
    CASE s = "Ana" -> <<"a", "n", "a">>
      [] s = "Bia" -> <<"b", "i", "a">>
      [] s = "an" -> <<"a", "n">>
      [] s = "B" -> <<"b">>
      [] s = "1" -> <<"1">>
      [] s = "2" -> <<"2">>
      [] OTHER -> <<>>

\* text LIKE '%term%': NULL matches nothing; the terms of the model hold no % or _
Like(text, term) ==
    /\ text # NULL
    /\ LET t == LowerChars(text)
           u == LowerChars(term)
       IN \E i \in 1..(Len(t) + 1) : i + Len(u) - 1 <= Len(t) /\ SubSeq(t, i, i + Len(u) - 1) = u

\* an integer id as the text LIKE compares
IdText(id) ==
    CASE id = 1 -> "1"
      [] id = 2 -> "2"
      [] OTHER -> "other"

\* pedidos p JOIN clientes c ON p.cliente_id = c.id, in the order of p.id
JoinPedidosClientes(d) ==
    LET ps == SortById({p \in d.pedidos : \E c \in d.clientes : c.id = p.cliente_id})
    IN [i \in 1..Len(ps) |->
          [p |-> ps[i], c |-> CHOOSE c \in d.clientes : c.id = ps[i].cliente_id]]

StmtOk(d, rows, lastrowid) == [err |-> NoExc, db |-> d, rows |-> rows, lastrowid |-> lastrowid]

StmtErr(d, e) == [err |-> e, db |-> d, rows |-> <<>>, lastrowid |-> 0]

\* the id AUTOINCREMENT gives the next row of table t
NextId(d, t, rows) == Max(d.seq[t], MaxOf({r.id : r \in rows})) + 1

\* a table whose email column carries no constraint
EmailTakenNever(d, email, id) == FALSE

\* email TEXT UNIQUE: a row other than row id holds this email; NULLs are
\* distinct from one another
EmailTaken(d, email, id) == email # NULL /\ \E r \in d.clientes : r.id # id /\ r.email = email

(***************************************************************************)
(* One statement on database content d, with foreign keys enforced (fk) or *)
(* not. A failing statement changes nothing (SQLite aborts the statement). *)
(* NOT NULL is checked on the text columns: the ids, quantities and        *)
(* amounts the model passes are always numbers.                            *)
(***************************************************************************)
RunStatement(d, fk, q, p) ==
    CASE q = Q_SELECT_CLIENTES ->
           StmtOk(d, [i \in 1..Cardinality(d.clientes) |->
                        LET r == SortById(d.clientes)[i]
                        IN <<r.id, r.nome, r.email, r.telefone>>], 0)
      [] q = Q_SELECT_CLIENTES_LIKE ->
           LET found == SortById({r \in d.clientes : Like(r.nome, p[1]) \/ Like(r.email, p[2])})
           IN StmtOk(d, [i \in 1..Len(found) |->
                           <<found[i].id, found[i].nome, found[i].email, found[i].telefone>>], 0)
      [] q = Q_INSERT_CLIENTE ->
           IF p[1] = NULL THEN StmtErr(d, E_NOT_NULL)
           ELSE IF EmailTaken(d, p[2], 0) THEN StmtErr(d, E_UNIQUE)
           ELSE LET id == NextId(d, "clientes", d.clientes)
                IN StmtOk([d EXCEPT !.clientes = @ \cup {[id |-> id, nome |-> p[1], email |-> p[2],
                                                          telefone |-> p[3]]},
                                    !.seq.clientes = id], <<>>, id)
      [] q = Q_UPDATE_CLIENTE ->
           IF ~\E r \in d.clientes : r.id = p[4] THEN StmtOk(d, <<>>, 0)
           ELSE IF p[1] = NULL THEN StmtErr(d, E_NOT_NULL)
           ELSE IF EmailTaken(d, p[2], p[4]) THEN StmtErr(d, E_UNIQUE)
           ELSE StmtOk([d EXCEPT !.clientes = {r \in @ : r.id # p[4]}
                                      \cup {[id |-> p[4], nome |-> p[1], email |-> p[2],
                                             telefone |-> p[3]]}], <<>>, 0)
      [] q = Q_SELECT_1_PEDIDOS ->
           StmtOk(d, [i \in 1..Cardinality({r \in d.pedidos : r.cliente_id = p[1]}) |-> <<1>>], 0)
      [] q = Q_DELETE_CLIENTE ->
           IF fk /\ \E r \in d.pedidos : r.cliente_id = p[1] THEN StmtErr(d, E_FOREIGN_KEY)
           ELSE StmtOk([d EXCEPT !.clientes = {r \in @ : r.id # p[1]}], <<>>, 0)
      [] q = Q_SELECT_PEDIDO ->
           StmtOk(d, [i \in 1..Cardinality({r \in d.pedidos : r.id = p[1]}) |->
                        LET r == CHOOSE x \in d.pedidos : x.id = p[1]
                        IN <<r.id, r.cliente_id, r.data, r.total>>], 0)
      [] q = Q_SELECT_ITENS ->
           LET its == SortById({r \in d.itens : r.pedido_id = p[1]})
           IN StmtOk(d, [i \in 1..Len(its) |->
                           <<its[i].produto, its[i].quantidade, its[i].preco_unit>>], 0)
      [] q = Q_SELECT_PEDIDOS_JOIN ->
           LET j == JoinPedidosClientes(d)
           IN StmtOk(d, [i \in 1..Len(j) |-> <<j[i].p.id, j[i].c.nome, j[i].p.data, j[i].p.total>>], 0)
      [] q = Q_SELECT_PEDIDOS_JOIN_LIKE ->
           LET j == SelectSeq(JoinPedidosClientes(d),
                              LAMBDA x : Like(x.c.nome, p[1]) \/ Like(IdText(x.p.id), p[2]))
           IN StmtOk(d, [i \in 1..Len(j) |-> <<j[i].p.id, j[i].c.nome, j[i].p.data, j[i].p.total>>], 0)
      [] q = Q_INSERT_PEDIDO ->
           IF p[2] = NULL THEN StmtErr(d, E_NOT_NULL)
           ELSE IF fk /\ ~\E r \in d.clientes : r.id = p[1] THEN StmtErr(d, E_FOREIGN_KEY)
           ELSE LET id == NextId(d, "pedidos", d.pedidos)
                IN StmtOk([d EXCEPT !.pedidos = @ \cup {[id |-> id, cliente_id |-> p[1],
                                                         data |-> p[2], total |-> p[3]]},
                                    !.seq.pedidos = id], <<>>, id)
      [] q = Q_INSERT_ITEM ->
           IF p[2] = NULL THEN StmtErr(d, E_NOT_NULL)
           ELSE IF fk /\ ~\E r \in d.pedidos : r.id = p[1] THEN StmtErr(d, E_FOREIGN_KEY)
           ELSE LET id == NextId(d, "itens", d.itens)
                IN StmtOk([d EXCEPT !.itens = @ \cup {[id |-> id, pedido_id |-> p[1], produto |-> p[2],
                                                       quantidade |-> p[3], preco_unit |-> p[4]]},
                                    !.seq.itens = id], <<>>, id)
      [] q = Q_UPDATE_PEDIDO ->
           IF ~\E r \in d.pedidos : r.id = p[4] THEN StmtOk(d, <<>>, 0)
           ELSE IF p[2] = NULL THEN StmtErr(d, E_NOT_NULL)
           ELSE IF fk /\ ~\E r \in d.clientes : r.id = p[1] THEN StmtErr(d, E_FOREIGN_KEY)
           ELSE StmtOk([d EXCEPT !.pedidos = {r \in @ : r.id # p[4]}
                                     \cup {[id |-> p[4], cliente_id |-> p[1],
                                            data |-> p[2], total |-> p[3]]}], <<>>, 0)
      [] q = Q_DELETE_ITENS ->
           StmtOk([d EXCEPT !.itens = {r \in @ : r.pedido_id # p[1]}], <<>>, 0)
      [] q = Q_DELETE_PEDIDO ->
           \* ON DELETE CASCADE removes the order's line items, when enforced
           StmtOk([d EXCEPT !.pedidos = {r \in @ : r.id # p[1]},
                            !.itens = IF fk THEN {r \in @ : r.pedido_id # p[1]} ELSE @], <<>>, 0)

(***************************************************************************)
(* A sqlite3 connection: its state, the content its open transaction sees  *)
(* (view, when inTxn) and whether PRAGMA foreign_keys took effect on it.   *)
(***************************************************************************)
ConnIds == {"c1"}

NoConn == [state |-> "none", inTxn |-> FALSE, view |-> EmptyDb, fk |-> FALSE]

FreshConn == [state |-> "open", inTxn |-> FALSE, view |-> EmptyDb, fk |-> FALSE]

ConnRollback(c) == [c EXCEPT !.inTxn = FALSE, !.view = EmptyDb]

ConnClose(c) == [c EXCEPT !.state = "closed", !.inTxn = FALSE, !.view = EmptyDb]

\* conn.commit(): the pending transaction, if any, becomes the stored content
ConnCommit(d, c, fault) ==
    IF fault = "commit" THEN [err |-> E_IO, db |-> d, c |-> c]
    ELSE [err |-> NoExc, db |-> IF c.inTxn THEN c.view ELSE d, c |-> ConnRollback(c)]

\* conn.cursor(), the PRAGMA and cursor.execute(query, params) of execute_query.
\* busy: another connection holds the write lock.
CursorExecute(d, c, busy, q, p, fault) ==
    LET pragma == [c EXCEPT !.fk = IF c.inTxn THEN @ ELSE TRUE]
        seen == IF c.inTxn THEN c.view ELSE d
        Out(e, c2, d2, rows, id) == [err |-> e, c |-> c2, db |-> d2, rows |-> rows, lastrowid |-> id]
    IN IF c.state # "open" THEN Out(E_CLOSED, c, d, <<>>, 0)
       ELSE IF fault = "execute" THEN Out(E_IO, pragma, d, <<>>, 0)
       ELSE IF fault = "overflow" THEN Out(E_OVERFLOW, pragma, d, <<>>, 0)
       ELSE IF q = Q_COMMIT THEN
            IF c.inTxn THEN Out(NoExc, ConnRollback(pragma), c.view, <<>>, 0)
            ELSE Out(E_NO_TXN, pragma, d, <<>>, 0)
       ELSE IF q = Q_ROLLBACK THEN
            IF c.inTxn THEN Out(NoExc, ConnRollback(pragma), d, <<>>, 0)
            ELSE Out(E_NO_TXN, pragma, d, <<>>, 0)
       ELSE IF IsDml(q) /\ busy THEN Out(E_LOCKED, pragma, d, <<>>, 0)
       ELSE Bind(RunStatement(seen, pragma.fk, q, p),
                 LAMBDA r :
                    IF IsDml(q)
                    THEN Out(r.err, [pragma EXCEPT !.inTxn = TRUE, !.view = r.db], d, r.rows, r.lastrowid)
                    ELSE Out(r.err, pragma, d, r.rows, r.lastrowid))

(***************************************************************************)
(* db.execute_query(query, params, conn, fetch). kw are the names of the   *)
(* keyword arguments of the call; w is the store: [db, conns, gwOpen, ev]. *)
(***************************************************************************)
ResNone == [kind |-> "None", rows |-> <<>>, int |-> 0]

\* a signature that swallows the keywords of an older gateway (**kwargs)
SignatureWithKwargs == {"conn", "fetch", "commit", "fetch_all", "fetch_one", "fetch_last_row_id"}

\* the keyword parameters of the signature
Signature == {"conn", "fetch"}

Fetched(x, fetch) ==
    CASE fetch = "all" -> [ResNone EXCEPT !.kind = "rows", !.rows = x.rows]
      [] fetch = "one" -> IF Len(x.rows) > 0 THEN [ResNone EXCEPT !.kind = "row", !.rows = <<x.rows[1]>>]
                          ELSE ResNone
      [] fetch = "lastrowid" -> [ResNone EXCEPT !.kind = "int", !.int = x.lastrowid]
      [] OTHER -> ResNone

\* a gateway that commits on the caller's connection too
CommitsAlways(is_external_conn) == TRUE

\* line 193: the gateway commits after the statement
CommitsAfterExecute(is_external_conn) == ~is_external_conn

\* line 200: the gateway rolls back in the except clause
RollsBackOnError(is_external_conn) == ~is_external_conn

\* a gateway that wraps the error it caught
ReraisedWrapped(e) == "Exception: database error"

\* line 203: the exception the except clause raises
Reraised(e) == e

\* a gateway that closes its connection on the success path only
ClosesOnSuccessOnly(is_external_conn, exc) == ~is_external_conn /\ exc = NoExc

\* line 207: the gateway closes the connection in the finally clause
ClosesInFinally(is_external_conn, exc) == ~is_external_conn

\* another connection holds the write lock: it has a transaction open
WriterBusy(cs, conn) == \E k \in ConnIds \ {conn} : cs[k].state = "open" /\ cs[k].inTxn

ExecuteQuery(w, query, params, conn, fetch, kw, fault) ==
    LET is_external_conn == conn # None
        Raised(e) == [w |-> w, exc |-> e, result |-> ResNone]
    IN IF ~(kw \subseteq Signature) THEN Raised(E_TYPE)
       ELSE IF ~is_external_conn /\ fault = "connect" THEN Raised(E_IO)
       ELSE
         Bind(CursorExecute(w.db, IF is_external_conn THEN w.conns[conn] ELSE FreshConn,
                            WriterBusy(w.conns, conn), query, params, fault),
              LAMBDA x :
         LET commits == x.err = NoExc /\ CommitsAfterExecute(is_external_conn)
         IN Bind(IF commits THEN ConnCommit(x.db, x.c, fault)
                 ELSE [err |-> x.err, db |-> x.db, c |-> x.c],
                 LAMBDA cm :
         LET caught == IsSqliteError(cm.err)
             rollsback == caught /\ RollsBackOnError(is_external_conn)
             c1 == IF rollsback THEN ConnRollback(cm.c) ELSE cm.c
             exc == IF caught THEN Reraised(cm.err) ELSE cm.err
             closes == ClosesInFinally(is_external_conn, exc)
             c2 == IF closes THEN ConnClose(c1) ELSE c1
             ev == (IF is_external_conn THEN <<>> ELSE <<"connect">>)
                   \o <<"execute">>
                   \o (IF commits THEN <<"commit">> ELSE <<>>)
                   \o (IF rollsback THEN <<"rollback">> ELSE <<>>)
                   \o (IF closes THEN <<"close">> ELSE <<>>)
         IN [w |-> [db |-> cm.db,
                    conns |-> IF is_external_conn THEN [w.conns EXCEPT ![conn] = c2] ELSE w.conns,
                    gwOpen |-> IF ~is_external_conn /\ c2.state = "open" THEN w.gwOpen + 1 ELSE w.gwOpen,
                    ev |-> w.ev \o ev],
             exc |-> exc,
             result |-> IF exc = NoExc THEN Fetched(x, fetch) ELSE ResNone]))

(***************************************************************************)
(* models.py. Every operation takes the store w and gives the store after  *)
(* it, the exception it raises (NoExc: it returns) and what it returns.    *)
(* models.py never passes conn: each of its statements runs on a           *)
(* connection of its own.                                                  *)
(***************************************************************************)
RetNone == [kind |-> "None", success |-> FALSE, rows |-> <<>>, info |-> <<>>, itens |-> <<>>]

Returns(w, ret) == [w |-> w, exc |-> NoExc, ret |-> ret]

Raises(w, e) == [w |-> w, exc |-> e, ret |-> RetNone]

E_NOT_ITERABLE == "TypeError: 'NoneType' object is not iterable"

\* ClienteModel.find_clients; search_term "" is falsy. The parameter of LIKE
\* is the term between two % signs: the model passes the term.
find_clients(w, search_term) ==
    LET r == IF search_term # ""
             THEN ExecuteQuery(w, Q_SELECT_CLIENTES_LIKE, <<search_term, search_term>>, None, None,
                               {"fetch_all"}, "none")
             ELSE ExecuteQuery(w, Q_SELECT_CLIENTES, <<>>, None, None, {"fetch_all"}, "none")
    IN IF r.exc # NoExc THEN Raises(r.w, r.exc)
       ELSE Returns(r.w, [RetNone EXCEPT !.kind = r.result.kind, !.rows = r.result.rows])

\* PedidoModel.find_pedidos: one parameter, the search term; it has none for
\* a date range
find_pedidos(w, search_term) ==
    LET r == IF search_term # ""
             THEN ExecuteQuery(w, Q_SELECT_PEDIDOS_JOIN_LIKE, <<search_term, search_term>>, None, None,
                               {"fetch_all"}, "none")
             ELSE ExecuteQuery(w, Q_SELECT_PEDIDOS_JOIN, <<>>, None, None, {"fetch_all"}, "none")
    IN IF r.exc # NoExc THEN Raises(r.w, r.exc)
       ELSE Returns(r.w, [RetNone EXCEPT !.kind = r.result.kind, !.rows = r.result.rows])

\* ClienteModel.add_client
add_client(w, nome, email, telefone) ==
    LET r == ExecuteQuery(w, Q_INSERT_CLIENTE, <<nome, email, telefone>>, None, None, {"commit"}, "none")
    IN IF r.exc # NoExc THEN Raises(r.w, r.exc)
       ELSE Returns(r.w, [RetNone EXCEPT !.kind = "dict", !.success = TRUE])

\* ClienteModel.update_client
update_client(w, cliente_id, nome, email, telefone) ==
    LET r == ExecuteQuery(w, Q_UPDATE_CLIENTE, <<nome, email, telefone, cliente_id>>, None, None,
                          {"commit"}, "none")
    IN IF r.exc # NoExc THEN Raises(r.w, r.exc)
       ELSE Returns(r.w, [RetNone EXCEPT !.kind = "dict", !.success = TRUE])

\* ClienteModel.delete_client
delete_client(w, cliente_id) ==
    LET check == ExecuteQuery(w, Q_SELECT_1_PEDIDOS, <<cliente_id>>, None, None, {"fetch_one"}, "none")
        has_pedidos == check.result.kind = "row"
        del == ExecuteQuery(check.w, Q_DELETE_CLIENTE, <<cliente_id>>, None, None, {"commit"}, "none")
        refused(wx) == Returns(wx, [RetNone EXCEPT !.kind = "dict", !.success = FALSE])
        \* except Exception: a foreign key failure is reported, anything else raised
        handler(wx, e) == IF e = E_FOREIGN_KEY THEN refused(wx) ELSE Raises(wx, e)
    IN IF check.exc # NoExc THEN handler(check.w, check.exc)
       ELSE IF has_pedidos THEN refused(check.w)
       ELSE IF del.exc # NoExc THEN handler(del.w, del.exc)
       ELSE Returns(del.w, [RetNone EXCEPT !.kind = "dict", !.success = TRUE])

\* PedidoModel.get_pedido_details
get_pedido_details(w, pedido_id) ==
    LET r1 == ExecuteQuery(w, Q_SELECT_PEDIDO, <<pedido_id>>, None, None, {"fetch_one"}, "none")
        r2 == ExecuteQuery(r1.w, Q_SELECT_ITENS, <<pedido_id>>, None, None, {"fetch_all"}, "none")
    IN IF r1.exc # NoExc THEN Raises(r1.w, r1.exc)
       ELSE IF r1.result.kind # "row" THEN Returns(r1.w, RetNone)
       ELSE IF r2.exc # NoExc THEN Raises(r2.w, r2.exc)
       ELSE IF r2.result.kind # "rows" THEN Raises(r2.w, E_NOT_ITERABLE)
       ELSE Returns(r2.w, [RetNone EXCEPT !.kind = "details",
                                          !.info = r1.result.rows[1],
                                          !.itens = [i \in 1..Len(r2.result.rows) |->
                                                       [produto |-> r2.result.rows[i][1],
                                                        quantidade |-> r2.result.rows[i][2],
                                                        preco_unit |-> r2.result.rows[i][3]]]])

\* for item in itens: execute_query(query_item, (pedido_id, ...), commit=False)
RECURSIVE InsertItens(_, _, _, _)
InsertItens(w, pedido_id, itens, i) ==
    IF i > Len(itens) THEN [w |-> w, exc |-> NoExc]
    ELSE LET r == ExecuteQuery(w, Q_INSERT_ITEM,
                               <<pedido_id, itens[i].produto, itens[i].quantidade, itens[i].preco_unit>>,
                               None, None, {"commit"}, "none")
         IN IF r.exc # NoExc THEN [w |-> r.w, exc |-> r.exc]
            ELSE InsertItens(r.w, pedido_id, itens, i + 1)

\* an except clause that ends without raising
RollbackAndReturn(w, e) ==
    LET rb == ExecuteQuery(w, Q_ROLLBACK, <<>>, None, None, {"commit"}, "none")
    IN Returns(rb.w, RetNone)

\* the except clause of the three order writes: ROLLBACK is tried, a failure
\* of it is logged, and the original exception is raised
RollbackAndRaise(w, e) ==
    LET rb == ExecuteQuery(w, Q_ROLLBACK, <<>>, None, None, {"commit"}, "none")
    IN Raises(rb.w, e)

\* PedidoModel.salvar_pedido_transacional
salvar_pedido_transacional(w, cliente_id, data_pedido, itens, total) ==
    LET r1 == ExecuteQuery(w, Q_INSERT_PEDIDO, <<cliente_id, data_pedido, total>>, None, None,
                           {"commit", "fetch_last_row_id"}, "none")
        \* not pedido_id: None or 0
        pedido_id == r1.result.int
        no_id == r1.result.kind # "int" \/ pedido_id = 0
        r2 == InsertItens(r1.w, pedido_id, itens, 1)
        r3 == ExecuteQuery(r2.w, Q_COMMIT, <<>>, None, None, {"commit"}, "none")
    IN IF r1.exc # NoExc THEN RollbackAndRaise(r1.w, r1.exc)
       ELSE IF no_id THEN RollbackAndRaise(r1.w, E_NO_ID)
       ELSE IF r2.exc # NoExc THEN RollbackAndRaise(r2.w, r2.exc)
       ELSE IF r3.exc # NoExc THEN RollbackAndRaise(r3.w, r3.exc)
       ELSE Returns(r3.w, RetNone)

\* PedidoModel.editar_pedido_transacional
editar_pedido_transacional(w, pedido_id, cliente_id, data_pedido, itens, total) ==
    LET r1 == ExecuteQuery(w, Q_UPDATE_PEDIDO, <<cliente_id, data_pedido, total, pedido_id>>, None, None,
                           {"commit"}, "none")
        r2 == ExecuteQuery(r1.w, Q_DELETE_ITENS, <<pedido_id>>, None, None, {"commit"}, "none")
        r3 == InsertItens(r2.w, pedido_id, itens, 1)
        r4 == ExecuteQuery(r3.w, Q_COMMIT, <<>>, None, None, {"commit"}, "none")
    IN IF r1.exc # NoExc THEN RollbackAndRaise(r1.w, r1.exc)
       ELSE IF r2.exc # NoExc THEN RollbackAndRaise(r2.w, r2.exc)
       ELSE IF r3.exc # NoExc THEN RollbackAndRaise(r3.w, r3.exc)
       ELSE IF r4.exc # NoExc THEN RollbackAndRaise(r4.w, r4.exc)
       ELSE Returns(r4.w, RetNone)

\* PedidoModel.delete_pedido_transacional
delete_pedido_transacional(w, pedido_id) ==
    LET r1 == ExecuteQuery(w, Q_DELETE_ITENS, <<pedido_id>>, None, None, {"commit"}, "none")
        r2 == ExecuteQuery(r1.w, Q_DELETE_PEDIDO, <<pedido_id>>, None, None, {"commit"}, "none")
        r3 == ExecuteQuery(r2.w, Q_COMMIT, <<>>, None, None, {"commit"}, "none")
    IN IF r1.exc # NoExc THEN RollbackAndRaise(r1.w, r1.exc)
       ELSE IF r2.exc # NoExc THEN RollbackAndRaise(r2.w, r2.exc)
       ELSE IF r3.exc # NoExc THEN RollbackAndRaise(r3.w, r3.exc)
       ELSE Returns(r3.w, RetNone)

(***************************************************************************)
(* The state machine. Each action is one call, run to its end on the       *)
(* single GUI thread.                                                      *)
(***************************************************************************)
NoCall ==
    [op |-> "none", query |-> "", params |-> <<>>, conn |-> None, fetch |-> None, fault |-> "none",
     pedido_id |-> 0, cliente_id |-> 0, data |-> "", itens |-> <<>>, total |-> 0, term |-> "",
     date_start |-> "", date_end |-> "",
     exc |-> NoExc, res |-> ResNone, ret |-> RetNone, ev |-> <<>>]

NoForm == [open |-> FALSE]

\* DashboardFrame.__init__ and create_widgets: the texts of the four cards,
\* the two buttons and the text area of the analysis
NewDashboard ==
    [total_clientes_var |-> <<"...">>, pedidos_mes_var |-> <<"...">>,
     ticket_medio_var |-> <<"...">>, receita_mes_var |-> <<"...">>,
     refresh_button |-> "normal", analysis_button |-> "normal", analysis_text_area |-> ""]

\* the threads of the analysis that can be alive together
Workers == 1..MaxWorkers

\* a thread of _run_ia_analysis: where it is, what analisar_pedidos_ia gave
\* it, and the exception it has in hand
NewWorker == [pc |-> "idle", resposta |-> "", exc |-> NoExc]

\* HistoricoViewFrame.create_widgets: the text area and the two buttons
NewHistorico == [log_text_area |-> <<>>, refresh_button |-> "normal", clear_button |-> "normal"]

\* App.__init__, and the import of app_logger: _setup_logger opens logs/app.log
\* for appending, which creates it.  log_lines are the lines of the file the
\* handler's stream writes to; log_path is what the name LOG_FILE leads to:
\* "stream" (that file), "missing" (no file) or "fresh" (another, empty file)
\* workers are the threads of start_analysis_thread, latest the one started
\* last (0: none yet), destroyed whether the window was closed
NewApp ==
    [dashboard |-> NewDashboard, historico |-> NewHistorico, cliente_form |-> NoForm,
     current_open_form |-> None, is_form_dirty |-> FALSE, clientes_combobox_list |-> <<>>,
     clientes_buttons |-> [new_button |-> "normal", edit_button |-> "normal",
                           delete_button |-> "normal"],
     log_lines |-> <<>>, log_path |-> "stream",
     workers |-> [w \in Workers |-> NewWorker], latest |-> 0, destroyed |-> FALSE]

Init ==
    /\ db = EmptyDb
    /\ conns = [k \in ConnIds |-> NoConn]
    /\ gwOpen = 0
    /\ lastCall = NoCall
    /\ form = NoForm
    /\ app = NewApp

Store == [db |-> db, conns |-> conns, gwOpen |-> gwOpen, ev |-> <<>>]

SetStore(w) ==
    /\ db' = w.db
    /\ conns' = w.conns
    /\ gwOpen' = w.gwOpen

\* a call of models.py and its outcome r
ModelCall(call, r) ==
    /\ SetStore(r.w)
    /\ lastCall' = [call EXCEPT !.exc = r.exc, !.ret = r.ret, !.ev = r.w.ev]
    /\ UNCHANGED <<form, app>>

ClienteIds == {r.id : r \in db.clientes} \cup MissingIds

PedidoIds == {r.id : r \in db.pedidos} \cup MissingIds

\* the item lists of the order payloads: none, valid ones, and ones whose
\* first or second insert violates NOT NULL
ItemLists ==
    {<<>>, <<ItemWidget>>, <<ItemWidget, ItemGadget>>, <<ItemNoProduct>>, <<ItemWidget, ItemNoProduct>>}

RowsInserted(d) == d.seq.clientes + d.seq.pedidos + d.seq.itens

\* the statements that fill the tables with valid rows
PopulateStatements ==
    {<<Q_INSERT_CLIENTE, <<n, NULL, NULL>>>> : n \in Nomes}
    \cup {<<Q_INSERT_PEDIDO, <<r.id, d, 2498>>>> : r \in db.clientes, d \in Datas}
    \cup {<<Q_INSERT_ITEM, <<r.id, i.produto, i.quantidade, i.preco_unit>>>> :
             r \in db.pedidos, i \in {ItemWidget, ItemGadget}}
    \cup {<<Q_DELETE_PEDIDO, <<r.id>>>> : r \in db.pedidos}

IsInsert(q) == q \in {Q_INSERT_CLIENTE, Q_INSERT_PEDIDO, Q_INSERT_ITEM}

\* the content a statement on conn reads
Seen(conn) == IF conn # None /\ conns[conn].inTxn THEN conns[conn].view ELSE db

\* execute_query called as its signature allows, on a connection of its own
\* (conn None) or on the caller's
ExecuteQueryCall(statements, maxRows, conn, fetch, fault) ==
    \E st \in statements :
        /\ IsInsert(st[1]) => RowsInserted(Seen(conn)) < maxRows
        /\ \E r \in {ExecuteQuery(Store, st[1], st[2], conn, fetch,
                                   (IF conn = None THEN {} ELSE {"conn"})
                                   \cup (IF fetch = None THEN {} ELSE {"fetch"}), fault)} :
              /\ SetStore(r.w)
              /\ lastCall' = [NoCall EXCEPT !.op = "execute_query", !.query = st[1], !.params = st[2],
                                            !.conn = conn, !.fetch = fetch, !.fault = fault,
                                            !.exc = r.exc, !.res = r.result, !.ev = r.w.ev]
              /\ UNCHANGED <<form, app>>

FindClients ==
    \E term \in {"", "an"} :
        ModelCall([NoCall EXCEPT !.op = "find_clients", !.term = term], find_clients(Store, term))

\* the order search of the Pedidos screen: a term and a date range are asked
\* for, and find_pedidos is given what it takes, the term
FindPedidos ==
    \E term \in {"", "an", "1"}, date_start \in {"", "2025-01-10"}, date_end \in {"", "2025-01-09"} :
        ModelCall([NoCall EXCEPT !.op = "find_pedidos", !.term = term,
                                 !.date_start = date_start, !.date_end = date_end],
                  find_pedidos(Store, term))

AddClient ==
    \E n \in Nomes, e \in Emails :
        ModelCall([NoCall EXCEPT !.op = "add_client", !.params = <<n, e, NULL>>],
                  add_client(Store, n, e, NULL))

UpdateClient ==
    \E c \in ClienteIds, n \in Nomes, e \in Emails :
        ModelCall([NoCall EXCEPT !.op = "update_client", !.cliente_id = c, !.params = <<n, e, NULL>>],
                  update_client(Store, c, n, e, NULL))

DeleteClient ==
    \E c \in ClienteIds :
        ModelCall([NoCall EXCEPT !.op = "delete_client", !.cliente_id = c], delete_client(Store, c))

GetPedidoDetails ==
    \E p \in PedidoIds :
        ModelCall([NoCall EXCEPT !.op = "get_pedido_details", !.pedido_id = p],
                  get_pedido_details(Store, p))

SalvarPedido ==
    \E c \in ClienteIds, d \in Datas, its \in ItemLists, t \in Totals :
        ModelCall([NoCall EXCEPT !.op = "salvar_pedido_transacional", !.cliente_id = c, !.data = d,
                                 !.itens = its, !.total = t],
                  salvar_pedido_transacional(Store, c, d, its, t))

EditarPedido ==
    \E p \in PedidoIds, c \in ClienteIds, d \in Datas, its \in ItemLists, t \in {2498} :
        ModelCall([NoCall EXCEPT !.op = "editar_pedido_transacional", !.pedido_id = p,
                                 !.cliente_id = c, !.data = d, !.itens = its, !.total = t],
                  editar_pedido_transacional(Store, p, c, d, its, t))

DeletePedido ==
    \E p \in PedidoIds :
        ModelCall([NoCall EXCEPT !.op = "delete_pedido_transacional", !.pedido_id = p],
                  delete_pedido_transacional(Store, p))

\* the rows of the database file are written through the gateway
Populate == ExecuteQueryCall(PopulateStatements, MaxRows, None, None, "none")

Next ==
    \/ Populate
    \/ FindClients
    \/ FindPedidos
    \/ DeleteClient
    \/ GetPedidoDetails
    \/ SalvarPedido
    \/ EditarPedido
    \/ DeletePedido

Spec == Init /\ [][Next]_vars

(***************************************************************************)
(* The customers table: rows written through the gateway, with and without *)
(* an email, and the two customer writes of models.py.                     *)
(***************************************************************************)
ClienteStatements ==
    {<<Q_INSERT_CLIENTE, <<n, e, NULL>>>> : n \in Nomes, e \in Emails}
    \cup {<<Q_UPDATE_CLIENTE, <<r.nome, e, NULL, r.id>>>> : r \in db.clientes, e \in Emails}
    \cup {<<Q_DELETE_CLIENTE, <<r.id>>>> : r \in db.clientes}

PopulateClientes == ExecuteQueryCall(ClienteStatements, MaxClienteRows, None, None, "none")

NextClientes ==
    \/ PopulateClientes
    \/ AddClient
    \/ UpdateClient

SpecClientes == Init /\ [][NextClientes]_vars

(***************************************************************************)
(* The gateway on its own: execute_query called as its signature allows,   *)
(* with every fetch mode, on a connection of its own or on a connection    *)
(* its caller opened and commits, rolls back and closes itself.            *)
(***************************************************************************)
FetchModes == {None, "one", "all", "lastrowid"}

\* what can go wrong: connecting, the statement (an sqlite3 error, or an
\* exception that is none), the commit
Faults == {"none", "connect", "execute", "overflow", "commit"}

GatewayStatements(conn) ==
    {<<Q_INSERT_CLIENTE, <<n, NULL, NULL>>>> : n \in {"Ana", NULL}}
    \cup {<<Q_INSERT_PEDIDO, <<c, d, 2498>>>> :
            c \in {r.id : r \in Seen(conn).clientes} \cup MissingIds, d \in Datas}
    \cup {<<Q_DELETE_CLIENTE, <<r.id>>>> : r \in Seen(conn).clientes}
    \cup {<<Q_SELECT_CLIENTES, <<>>>>}
    \cup (IF conn = None THEN {<<Q_COMMIT, <<>>>>, <<Q_ROLLBACK, <<>>>>} ELSE {})

\* every fetch mode without a fault, every fault without a fetch
FetchAndFault == {<<f, "none">> : f \in FetchModes} \cup {<<None, x>> : x \in Faults}

GatewayOwnConnection ==
    \E ff \in FetchAndFault :
        ExecuteQueryCall(GatewayStatements(None), MaxGatewayRows, None, ff[1], ff[2])

GatewayCallerConnection ==
    \E k \in ConnIds, ff \in FetchAndFault :
        /\ conns[k].state # "none"
        /\ ff[2] \notin {"connect", "commit"}
        /\ ExecuteQueryCall(GatewayStatements(k), MaxGatewayRows, k, ff[1], ff[2])

CallerStep(k, op, d, c) ==
    /\ db' = d
    /\ conns' = [conns EXCEPT ![k] = c]
    /\ lastCall' = [NoCall EXCEPT !.op = op, !.conn = k]
    /\ UNCHANGED <<gwOpen, form, app>>

\* the caller's get_db_connection()
CallerConnect ==
    \E k \in ConnIds :
        /\ conns[k].state # "open"
        /\ CallerStep(k, "connect", db, FreshConn)

CallerCommit ==
    \E k \in ConnIds :
        /\ conns[k].state = "open"
        /\ LET r == ConnCommit(db, conns[k], "none")
           IN CallerStep(k, "commit", r.db, r.c)

CallerRollback ==
    \E k \in ConnIds :
        /\ conns[k].state = "open"
        /\ CallerStep(k, "rollback", db, ConnRollback(conns[k]))

CallerClose ==
    \E k \in ConnIds :
        /\ conns[k].state = "open"
        /\ CallerStep(k, "close", db, ConnClose(conns[k]))

NextGateway ==
    \/ GatewayOwnConnection
    \/ GatewayCallerConnection
    \/ CallerConnect
    \/ CallerCommit
    \/ CallerRollback
    \/ CallerClose

SpecGateway == Init /\ [][NextGateway]_vars

(***************************************************************************)
(* The order form: PedidoFormWindow of views/pedidos_view.py. Amounts are  *)
(* in cents, so the float arithmetic of the form is exact on them.         *)
(***************************************************************************)
\* all_clients_list, (id, nome) pairs
AllClientsList == <<<<1, "Ana">>, <<2, "Bia">>>>

cliente_nomes == {AllClientsList[i][2] : i \in 1..Len(AllClientsList)}

\* the dict nome -> id, a later pair of the same name winning; .get() of an
\* absent name is None, which is false as 0 is
cliente_nome_to_id(nome) ==
    LET at == {i \in 1..Len(AllClientsList) : AllClientsList[i][2] = nome}
    IN IF at = {} THEN 0 ELSE AllClientsList[MaxOf(at)][1]

\* the dict id -> nome
cliente_id_to_nome(cid) ==
    LET at == {i \in 1..Len(AllClientsList) : AllClientsList[i][1] = cid}
    IN IF at = {} THEN None ELSE AllClientsList[MaxOf(at)][2]

\* datetime.now().strftime('%Y-%m-%d')
Today == "2025-01-10"

\* what the user types in the three entries of "Adicionar Item"
ItemEntries ==
    {<<"Widget", "2", "9,99">>, <<" Gadget ", "1", "5.00">>, <<"  ", "1", "5.00">>,
     <<"Widget", "0", "9,99">>, <<"Widget", "1.5", "9,99">>, <<"Widget", "2", "abc">>,
     <<"Widget", "2", "0">>}

\* what the user types in the customer combobox and in the date entry
ClienteTyped == {"Zed"}

DataTyped == {"10/01/2025"}

\* str.strip() on the texts of the entries
Strip(s) ==
    CASE s = " Gadget " -> "Gadget"
      [] s = "  " -> ""
      [] OTHER -> s

\* int(value_str): the literals it parses; any other text is a ValueError
IntLiterals == [s \in {"0", "1", "2"} |-> CASE s = "0" -> 0 [] s = "1" -> 1 [] OTHER -> 2]

\* float(value_str), in cents; any other text is a ValueError
FloatLiterals ==
    [s \in {"0", "9.99", "5.00"} |-> CASE s = "0" -> 0 [] s = "9.99" -> 999 [] OTHER -> 500]

\* value_str.replace(',', '.')
ReplaceComma(s) == IF s = "9,99" THEN "9.99" ELSE s

validate_not_empty(value) == value # "" /\ Strip(value) # ""

validate_positive_integer(value_str) ==
    IF value_str \in DOMAIN IntLiterals /\ IntLiterals[value_str] > 0
    THEN <<TRUE, IntLiterals[value_str]>>
    ELSE <<FALSE, 0>>

validate_positive_float(value_str) ==
    LET s == ReplaceComma(value_str)
    IN IF s \in DOMAIN FloatLiterals /\ FloatLiterals[s] > 0
       THEN <<TRUE, FloatLiterals[s]>>
       ELSE <<FALSE, 0>>

\* datetime.strptime(date_str, '%Y-%m-%d') does not raise
validate_date_format(date_str) == date_str \in Datas

\* f"item_{self.item_counter}"
ItemId(n) == <<"item_", n>>

\* f"R$ {total:.2f}"
FormatTotal(total) == <<"R$ ", total \div 100, ".", total % 100>>

\* the values of a dict kept as a sequence of (key, value) in insertion order
DictValues(data) == [i \in 1..Len(data) |-> data[i][2]]

RECURSIVE SumFrom(_, _)
\* for item_id in self.itens_tree_data: total += quantidade * preco_unit
SumFrom(data, i) ==
    IF i > Len(data) THEN 0
    ELSE data[i][2].quantidade * data[i][2].preco_unit + SumFrom(data, i + 1)

\* a loop that stops after the first item
TotalOfFirstItem(data) ==
    IF data = <<>> THEN 0 ELSE data[1][2].quantidade * data[1][2].preco_unit

\* _recalcular_total: the total it returns, which it also shows in total_var
recalcular_total(data) == SumFrom(data, 1)

ShowTotal(f) == [f EXCEPT !.total_var = FormatTotal(recalcular_total(f.itens_tree_data))]

adicionar_item_na_tabela(f, produto, qtd, preco_unit) ==
    LET item_id == ItemId(f.item_counter)
    IN [f EXCEPT !.item_counter = f.item_counter + 1,
                 !.itens_tree = Append(f.itens_tree, item_id),
                 !.itens_tree_data =
                     Append(f.itens_tree_data,
                            <<item_id, [produto |-> produto, quantidade |-> qtd,
                                        preco_unit |-> preco_unit]>>)]

RECURSIVE LoadItens(_, _, _)
\* for item in itens_info: self._adicionar_item_na_tabela(...)
LoadItens(f, itens_info, i) ==
    IF i > Len(itens_info) THEN f
    ELSE LoadItens(adicionar_item_na_tabela(f, itens_info[i].produto, itens_info[i].quantidade,
                                            itens_info[i].preco_unit),
                   itens_info, i + 1)

\* the orders a form is opened on in 'edit' or 'view' mode
PedidoData ==
    {[id |-> 1, cliente_id |-> c, data |-> "2025-01-10", itens |-> l] :
        c \in {1, 99}, l \in {<<ItemWidget>>, <<ItemWidget, ItemGadget>>}}

\* PedidoFormWindow.__init__
NewForm(mode, pedido_data) ==
    LET blank == [open |-> TRUE, mode |-> mode, is_readonly |-> mode \notin {"new", "edit"},
                  pedido_id |-> IF mode = "new" THEN None ELSE pedido_data.id,
                  cliente_var |-> "", data_var |-> Today, total_var |-> FormatTotal(0),
                  itens_tree |-> <<>>, selection |-> <<>>, remove_item_button |-> "disabled",
                  itens_tree_data |-> <<>>, item_counter |-> 0,
                  is_dirty |-> FALSE, itens_changed |-> FALSE, after_pending |-> TRUE]
        nome == cliente_id_to_nome(pedido_data.cliente_id)
    IN IF mode = "new" THEN blank
       ELSE ShowTotal(
                LoadItens([blank EXCEPT !.cliente_var = IF nome = None THEN "" ELSE nome,
                                        !.data_var = pedido_data.data],
                          pedido_data.itens, 1))

\* a handler of the form has run; what it called outside the form, if anything
FormCall(op) == [NoCall EXCEPT !.op = op]

FormStep(op, f) ==
    /\ form' = f
    /\ lastCall' = FormCall(op)
    /\ UNCHANGED <<db, conns, gwOpen, app>>

\* _mark_as_dirty, the trace of data_var and itens_changed
mark_as_dirty(f) == [f EXCEPT !.is_dirty = TRUE]

OpenForm ==
    /\ ~form.open /\ ~app.cliente_form.open
    /\ \E mode \in {"new", "edit", "view"}, pedido_data \in PedidoData :
          FormStep("__init__", NewForm(mode, pedido_data))

\* self.after(100, lambda: self.is_dirty.set(False))
AfterLoad ==
    /\ form.open /\ form.after_pending
    /\ FormStep("after", [form EXCEPT !.is_dirty = FALSE, !.after_pending = FALSE])

\* <<ComboboxSelected>>: a name of the list is chosen
ClienteSelected ==
    /\ form.open /\ ~form.is_readonly
    /\ \E nome \in cliente_nomes :
          FormStep("ComboboxSelected", mark_as_dirty([form EXCEPT !.cliente_var = nome]))

\* a text typed in the combobox: cliente_var has no trace
ClienteTyping ==
    /\ form.open /\ ~form.is_readonly
    /\ \E text \in ClienteTyped : FormStep("cliente_var", [form EXCEPT !.cliente_var = text])

\* a text typed in the date entry: data_var is traced
DataTyping ==
    /\ form.open /\ ~form.is_readonly
    /\ \E text \in DataTyped \cup Datas :
          FormStep("data_var", mark_as_dirty([form EXCEPT !.data_var = text]))

\* <<TreeviewSelect>> and _on_item_select
ItemSelect ==
    /\ form.open
    /\ \E i \in 1..Len(form.itens_tree) :
          FormStep("_on_item_select",
                   [form EXCEPT !.selection = <<form.itens_tree[i]>>,
                                !.remove_item_button =
                                    IF form.is_readonly THEN @ ELSE "normal"])

adicionar_item(f, entries) ==
    LET produto   == Strip(entries[1])
        qtd_str   == Strip(entries[2])
        preco_str == Strip(entries[3])
        qtd       == validate_positive_integer(qtd_str)
        preco     == validate_positive_float(preco_str)
    IN IF ~validate_not_empty(produto) THEN f
       ELSE IF ~qtd[1] THEN f
       ELSE IF ~preco[1] THEN f
       ELSE mark_as_dirty(
                [ShowTotal(adicionar_item_na_tabela(f, produto, qtd[2], preco[2]))
                     EXCEPT !.itens_changed = TRUE])

AdicionarItem ==
    /\ form.open /\ ~form.is_readonly
    /\ form.item_counter < MaxCounter
    /\ \E entries \in ItemEntries : FormStep("_adicionar_item", adicionar_item(form, entries))

\* a removal that takes the row out of the table and leaves its data
remover_item_row_only(f, select_event) ==
    IF f.selection = <<>> THEN f
    ELSE LET selected_item_id == f.selection[1]
             g == [f EXCEPT !.itens_tree = SelectSeq(@, LAMBDA x : x # selected_item_id),
                            !.selection = <<>>,
                            !.remove_item_button = IF select_event THEN "disabled" ELSE @]
         IN mark_as_dirty([ShowTotal(g) EXCEPT !.itens_changed = TRUE])

\* whether Tk reports the selection emptied by the removal to _on_item_select
\* depends on the Tk release: the button is disabled by it or stays as it is
remover_item(f, select_event) ==
    IF f.selection = <<>> THEN f
    ELSE LET selected_item_id == f.selection[1]
             g == [f EXCEPT !.itens_tree_data = SelectSeq(@, LAMBDA x : x[1] # selected_item_id),
                            !.itens_tree = SelectSeq(@, LAMBDA x : x # selected_item_id),
                            !.selection = <<>>,
                            !.remove_item_button = IF select_event THEN "disabled" ELSE @]
         IN mark_as_dirty([ShowTotal(g) EXCEPT !.itens_changed = TRUE])

RemoverItem ==
    /\ form.open /\ ~form.is_readonly
    /\ form.remove_item_button = "normal"
    /\ \E select_event \in BOOLEAN : FormStep("_remover_item", remover_item(form, select_event))

\* what the callback of the controller answers; raising leaves _on_save at once
CallbackOutcomes == {"True", "False", "raise"}

NoPayload == [called |-> FALSE]

\* data_to_save of _on_save; nothing is called when a validation stops it
on_save_payload(f) ==
    LET cliente_id == cliente_nome_to_id(f.cliente_var)
        data_str   == Strip(f.data_var)
    IN IF f.is_readonly THEN NoPayload
       ELSE IF ~validate_not_empty(f.cliente_var) THEN NoPayload
       ELSE IF cliente_id = 0 THEN NoPayload
       ELSE IF ~validate_date_format(data_str) THEN NoPayload
       ELSE IF f.itens_tree_data = <<>> THEN NoPayload
       ELSE [called |-> TRUE,
             id |-> IF f.mode = "edit" THEN f.pedido_id ELSE None,
             cliente_id |-> cliente_id,
             data |-> data_str,
             total |-> recalcular_total(f.itens_tree_data),
             itens |-> DictValues(f.itens_tree_data)]

OnSave ==
    /\ form.open
    /\ LET data_to_save == on_save_payload(form)
       IN IF ~data_to_save.called
          THEN FormStep("_on_save", form)
          ELSE \E success \in CallbackOutcomes :
                  /\ form' = IF success = "True" THEN NoForm ELSE ShowTotal(form)
                  /\ lastCall' = [FormCall("on_save_callback") EXCEPT
                                      !.pedido_id = data_to_save.id,
                                      !.cliente_id = data_to_save.cliente_id,
                                      !.data = data_to_save.data,
                                      !.total = data_to_save.total,
                                      !.itens = data_to_save.itens,
                                      !.res = success]
                  /\ UNCHANGED <<db, conns, gwOpen, app>>

\* _on_close_window: "Cancelar" or the X of the window
OnCloseWindow ==
    /\ form.open
    /\ \E askyesno \in BOOLEAN :
          FormStep("_on_close_window",
                   IF form.is_readonly \/ ~form.is_dirty \/ askyesno THEN NoForm ELSE form)

(***************************************************************************)
(* ClienteForm of views/clientes_view.py, a modal window: its texts are    *)
(* sequences of characters, and None is a record of its own.               *)
(***************************************************************************)
RECURSIVE LStrip(_)
LStrip(s) == IF s # <<>> /\ Head(s) = " " THEN LStrip(Tail(s)) ELSE s

RECURSIVE RStrip(_)
RStrip(s) == IF s # <<>> /\ s[Len(s)] = " " THEN RStrip(SubSeq(s, 1, Len(s) - 1)) ELSE s

\* str.strip()
StripText(s) == RStrip(LStrip(s))

\* ch in s
InText(ch, s) == \E i \in 1..Len(s) : s[i] = ch

\* "".join(filter(str.isdigit, telefone)), as its length
DigitCount(s) ==
    Cardinality({i \in 1..Len(s) : s[i] \in {"0", "1", "2", "3", "4", "5", "6", "7", "8", "9"}})

\* what the user types in the three entries
NomeTexts == {<<>>, <<" ">>, <<" ", "A", "n", "a">>}

EmailTexts == {<<>>, <<" ">>, <<"a", "@", "b">>, <<"a", "@", "b", ".", "c", " ">>}

TelefoneTexts ==
    {<<>>, <<"1", "2", "3">>, <<"(", "1", "1", ")", "9", "8", "7", "6", "-", "5", "4", "3">>,
     <<"1", "2", "3", "4", "5", "6", "7", "8", "9", "0", "1", "2", "3", "4", "5", "6">>}

\* the customers "Editar" opens the form on
ClienteRows ==
    {[id |-> 1, nome |-> <<"A", "n", "a">>, email |-> <<"a", "@", "b", ".", "c">>,
      telefone |-> <<>>]}

\* ClienteForm.__init__ and load_data
NewClienteForm(cliente) ==
    IF cliente.id = 0
    THEN [open |-> TRUE, current_cliente_id |-> 0, nome_var |-> <<>>, email_var |-> <<>>,
          telefone_var |-> <<>>, is_dirty |-> FALSE]
    ELSE [open |-> TRUE, current_cliente_id |-> cliente.id, nome_var |-> cliente.nome,
          email_var |-> cliente.email, telefone_var |-> cliente.telefone, is_dirty |-> FALSE]

\* a validate that lets an empty name through
validate_without_nome(f) ==
    LET email == StripText(f.email_var)
        telefone == StripText(f.telefone_var)
    IN /\ ~(email # <<>> /\ (~InText("@", email) \/ ~InText(".", email)))
       /\ ~(telefone # <<>> /\ ~(8 <= DigitCount(telefone) /\ DigitCount(telefone) <= 15))

\* ClienteForm.validate
validate(f) ==
    LET nome == StripText(f.nome_var)
        email == StripText(f.email_var)
        telefone == StripText(f.telefone_var)
    IN /\ nome # <<>>
       /\ ~(email # <<>> /\ (~InText("@", email) \/ ~InText(".", email)))
       /\ ~(telefone # <<>> /\ ~(8 <= DigitCount(telefone) /\ DigitCount(telefone) <= 15))

\* data["email"] = None when the text is empty
OrNone(text) == [none |-> text = <<>>, text |-> text]

\* the dict ClienteForm.on_save gives to its callback
cliente_data(f) ==
    [id |-> f.current_cliente_id, nome |-> StripText(f.nome_var),
     email |-> OrNone(StripText(f.email_var)), telefone |-> OrNone(StripText(f.telefone_var))]

\* an on_save that closes the window also when the callback raised
cliente_on_save_closing(f, outcome) ==
    IF ~validate(f) THEN f ELSE NoForm

\* ClienteForm.on_save, after the callback returned or raised
cliente_on_save(f, outcome) ==
    IF ~validate(f) THEN f
    ELSE IF outcome = "return" THEN NoForm
    ELSE f

ClienteFormStep(op, f) ==
    /\ app' = [app EXCEPT !.cliente_form = f]
    /\ lastCall' = FormCall(op)
    /\ UNCHANGED <<db, conns, gwOpen, form>>

\* "Novo Cliente" (id 0: no customer) and "Editar"
OpenClienteForm ==
    /\ ~form.open /\ ~app.cliente_form.open
    /\ \E cliente \in ClienteRows \cup {[id |-> 0]} :
          ClienteFormStep("ClienteForm", NewClienteForm(cliente))

\* a text typed in one of the entries: the three variables are traced
ClienteFormTyping ==
    /\ app.cliente_form.open
    /\ \/ \E t \in NomeTexts :
             ClienteFormStep("nome_var", [app.cliente_form EXCEPT !.nome_var = t, !.is_dirty = TRUE])
       \/ \E t \in EmailTexts :
             ClienteFormStep("email_var", [app.cliente_form EXCEPT !.email_var = t, !.is_dirty = TRUE])
       \/ \E t \in TelefoneTexts :
             ClienteFormStep("telefone_var",
                             [app.cliente_form EXCEPT !.telefone_var = t, !.is_dirty = TRUE])

\* "Salvar": the callback returns, or raises
ClienteFormOnSave ==
    /\ app.cliente_form.open
    /\ \E outcome \in {"return", "raise"} :
          /\ app' = [app EXCEPT !.cliente_form = cliente_on_save(app.cliente_form, outcome)]
          /\ lastCall' = IF validate(app.cliente_form)
                         THEN [FormCall("cliente_on_save_callback") EXCEPT
                                   !.res = cliente_data(app.cliente_form),
                                   !.exc = IF outcome = "raise" THEN "Exception" ELSE NoExc]
                         ELSE FormCall("cliente_on_save")
          /\ UNCHANGED <<db, conns, gwOpen, form>>

\* "Cancelar" or the X of the window
ClienteFormOnCancel ==
    /\ app.cliente_form.open
    /\ \E askyesno \in BOOLEAN :
          ClienteFormStep("cliente_on_cancel",
                          IF app.cliente_form.is_dirty /\ ~askyesno THEN app.cliente_form ELSE NoForm)

NextForm ==
    \/ OpenForm
    \/ AfterLoad
    \/ ClienteSelected
    \/ ClienteTyping
    \/ DataTyping
    \/ ItemSelect
    \/ AdicionarItem
    \/ RemoverItem
    \/ OnSave
    \/ OnCloseWindow
    \/ OpenClienteForm
    \/ ClienteFormTyping
    \/ ClienteFormOnSave
    \/ ClienteFormOnCancel

SpecForm == Init /\ [][NextForm]_vars

(***************************************************************************)
(* The controller: App of main.py, with the dashboard screen of            *)
(* views/dashboard_view.py. main.py reaches the model layer as functions   *)
(* of the module models (models.get_dashboard_stats(), ...).               *)
(***************************************************************************)
\* the names the module models defines
ModelsNames == {"logging", "execute_query", "log", "ClienteModel", "PedidoModel"}

E_ATTRIBUTE == "AttributeError: module 'models' has no attribute"

\* models.<name>: the lookup of a name in the module
ModelsAttr(name) == IF name \in ModelsNames THEN NoExc ELSE E_ATTRIBUTE

\* a dict, as the set of its (key, value) pairs, and dict.get(key, default)
DictGet(dict, key, default) ==
    IF \E kv \in dict : kv[1] = key THEN (CHOOSE kv \in dict : kv[1] = key)[2] ELSE default

\* the orders of the current calendar month
MonthOf(date) ==
    CASE date = "2025-01-10" -> "2025-01"
      [] date = "2024-12-31" -> "2024-12"
      [] OTHER -> ""

PedidosMesAtual(d) == {r \in d.pedidos : MonthOf(r.data) = MonthOf(Today)}

RECURSIVE SumTotals(_)
SumTotals(rows) ==
    IF rows = {} THEN 0
    ELSE LET r == CHOOSE x \in rows : TRUE IN r.total + SumTotals(rows \ {r})

\* DashboardFrame.set_loading_state
set_loading_state(d, is_loading) ==
    IF is_loading
    THEN [d EXCEPT !.refresh_button = "disabled",
                   !.total_clientes_var = <<"...">>, !.pedidos_mes_var = <<"...">>,
                   !.receita_mes_var = <<"...">>, !.ticket_medio_var = <<"...">>]
    ELSE [d EXCEPT !.refresh_button = "normal"]

\* DashboardFrame.update_stats
update_stats(d, stats) ==
    [d EXCEPT !.total_clientes_var = <<DictGet(stats, "total_clientes", 0)>>,
              !.pedidos_mes_var = <<DictGet(stats, "pedidos_mes_atual", 0)>>,
              !.receita_mes_var = FormatTotal(DictGet(stats, "receita_total_mes", 0)),
              !.ticket_medio_var = FormatTotal(DictGet(stats, "ticket_medio_mes_atual", 0))]

\* App.load_dashboard_data; stats is what models.get_dashboard_stats() gives
\* when the module has it
load_dashboard_data(a, show_success, stats) ==
    LET loading == set_loading_state(a.dashboard, TRUE)
        e == ModelsAttr("get_dashboard_stats")
    IN IF e = NoExc
       THEN [app |-> [a EXCEPT !.dashboard = set_loading_state(update_stats(loading, stats), FALSE)],
             exc |-> NoExc, dialog |-> IF show_success THEN "showinfo" ELSE "none"]
       ELSE [app |-> [a EXCEPT !.dashboard = set_loading_state(update_stats(loading, {}), FALSE)],
             exc |-> e, dialog |-> "showerror"]

\* the dict of statistics of database content d, as specified: models.py has
\* no function that computes it
StatsOf(d) ==
    LET mes == PedidosMesAtual(d)
        n == Cardinality(mes)
    IN {<<"total_clientes", Cardinality(d.clientes)>>, <<"pedidos_mes_atual", n>>,
        <<"receita_total_mes", SumTotals(mes)>>,
        <<"ticket_medio_mes_atual", IF n = 0 THEN 0 ELSE SumTotals(mes) \div n>>}

AppStep(op, r) ==
    /\ app' = r.app
    /\ lastCall' = [NoCall EXCEPT !.op = op, !.exc = r.exc, !.res = r.dialog]
    /\ UNCHANGED <<db, conns, gwOpen, form>>

\* "Atualizar Dados", and load_initial_data
LoadDashboardData ==
    \E show_success \in BOOLEAN :
        AppStep("load_dashboard_data", load_dashboard_data(app, show_success, StatsOf(db)))

\* the parameters of ClienteForm.__init__
ClienteFormParams == {"master", "on_save_callback", "on_cancel_callback", "cliente"}

\* App.open_cliente_form: the constructor is called with keywords it does
\* not have, after the buttons were disabled
open_cliente_form(a, cliente) ==
    IF a.current_open_form # None
    THEN [app |-> a, exc |-> NoExc, dialog |-> "focus_set"]
    ELSE LET a1 == [a EXCEPT !.clientes_buttons = [new_button |-> "disabled", edit_button |-> "disabled",
                                                   delete_button |-> "disabled"]]
             kw == {"master", "on_save_callback", "on_cancel_callback", "on_dirty_callback",
                    "cliente_data"}
         IN IF ~(kw \subseteq ClienteFormParams)
            THEN [app |-> a1, exc |-> "TypeError: __init__() got an unexpected keyword argument",
                  dialog |-> "none"]
            ELSE [app |-> [a1 EXCEPT !.current_open_form = "ClienteForm",
                                     !.cliente_form = NewClienteForm(cliente)],
                  exc |-> NoExc, dialog |-> "none"]

\* App.open_pedido_form: past the two returns it names PedidoForm, which
\* views/pedidos_view.py does not define, with keywords the order form of
\* that file does not have
open_pedido_form(a) ==
    IF a.current_open_form # None
    THEN [app |-> a, exc |-> NoExc, dialog |-> "focus_set"]
    ELSE IF a.clientes_combobox_list = <<>>
    THEN [app |-> a, exc |-> NoExc, dialog |-> "showwarning"]
    ELSE [app |-> a, exc |-> "NameError: PedidoForm", dialog |-> "none"]

\* "Novo Cliente", "Editar" and the double click on a row of the customers
OpenClienteFormApp ==
    \E c \in {[id |-> 0, nome |-> <<>>, email |-> <<>>, telefone |-> <<>>]} \cup ClienteRows :
        /\ app' = open_cliente_form(app, c).app
        /\ lastCall' = [NoCall EXCEPT !.op = "open_cliente_form", !.cliente_id = c.id,
                                      !.exc = open_cliente_form(app, c).exc,
                                      !.res = open_cliente_form(app, c).dialog]
        /\ UNCHANGED <<db, conns, gwOpen, form>>

\* "Novo Pedido"
OpenPedidoFormApp == AppStep("open_pedido_form", open_pedido_form(app))

\* the rows of the database file under the controller
AppStatements ==
    {<<Q_INSERT_CLIENTE, <<n, NULL, NULL>>>> : n \in {"Ana"}}
    \cup {<<Q_INSERT_PEDIDO, <<r.id, d, t>>>> :
             r \in db.clientes, d \in {"2025-01-10", "2024-12-31"}, t \in Totals}

PopulateApp == ExecuteQueryCall(AppStatements, MaxAppRows, None, None, "none")

NextApp ==
    \/ PopulateApp
    \/ LoadDashboardData
    \/ OpenClienteFormApp
    \/ OpenPedidoFormApp

SpecApp == Init /\ [][NextApp]_vars

(***************************************************************************)
(* The action log: app_logger.py, and the history screen of main.py.       *)
(* A text is the sequence of its lines; a line written with a timestamp is *)
(* <<"asctime", text>>, any other line is <<text>>.                        *)
(***************************************************************************)
Reverse(s) == [i \in 1..Len(s) |-> s[Len(s) + 1 - i]]

\* the messages of the callers: one line each, but for a customer name that
\* holds a line break
Messages ==
    {<<"Cliente excluído: ID 1">>, <<"Pedido excluído: ID 1">>,
     <<"Cliente criado: 'Ana", "Lima' (ID: Novo)">>}

MSG_CLEARED == <<"Histórico de logs limpo.">>

\* logging.Formatter('%(asctime)s - %(message)s'): the timestamp goes before
\* the message, so before its first line only
Format(message) ==
    <<<<"asctime", message[1]>>>> \o [i \in 1..(Len(message) - 1) |-> <<message[i + 1]>>]

\* the lines of the file LOG_FILE names
LogFile(a) == IF a.log_path = "stream" THEN a.log_lines ELSE <<>>

\* app_logger.log_action: the handler appends the formatted record to its stream
log_action(a, message) == [a EXCEPT !.log_lines = a.log_lines \o Format(message)]

\* app_logger.read_log
read_log(a, fault) ==
    IF fault = "open" THEN <<<<"Erro ao ler o arquivo de log: ">>>>
    ELSE IF a.log_path # "missing" THEN Reverse(LogFile(a)) ELSE <<<<"Nenhum histórico de log encontrado.">>>>

\* open(LOG_FILE, 'w'): the file of that name is emptied, or created
Truncate(a) ==
    IF a.log_path = "stream" THEN [a EXCEPT !.log_lines = <<>>]
    ELSE [a EXCEPT !.log_path = "fresh"]

\* a clear_log that writes the marker before it empties the file
clear_log_marker_first(a, fault) ==
    IF fault = "open" THEN [app |-> a, exc |-> "OSError", dialog |-> "none"]
    ELSE [app |-> Truncate(log_action(a, MSG_CLEARED)), exc |-> NoExc, dialog |-> "none"]

\* app_logger.clear_log
clear_log(a, fault) ==
    IF fault = "open" THEN [app |-> a, exc |-> "OSError", dialog |-> "none"]
    ELSE [app |-> log_action(Truncate(a), MSG_CLEARED), exc |-> NoExc, dialog |-> "none"]

\* App.load_historico_data
load_historico_data(a, fault) ==
    [a EXCEPT !.historico = [log_text_area |-> read_log(a, fault),
                             refresh_button |-> "normal", clear_button |-> "normal"]]

\* App.clear_historico_data
clear_historico_data(a, confirmed, fault) ==
    IF ~confirmed THEN [app |-> a, exc |-> NoExc, dialog |-> "none"]
    ELSE LET r == clear_log(a, fault)
         IN IF r.exc = NoExc
            THEN [app |-> load_historico_data(r.app, "none"), exc |-> NoExc, dialog |-> "showinfo"]
            ELSE [app |-> a, exc |-> r.exc, dialog |-> "showerror"]

LogAction ==
    \E message \in Messages :
        /\ Len(app.log_lines) + Len(message) <= MaxLogLines
        /\ AppStep("log_action", [app |-> log_action(app, message), exc |-> NoExc, dialog |-> "none"])

ReadLog ==
    \E fault \in {"none", "open"} :
        /\ app' = app
        /\ lastCall' = [NoCall EXCEPT !.op = "read_log", !.fault = fault, !.res = read_log(app, fault)]
        /\ UNCHANGED <<db, conns, gwOpen, form>>

ClearLog ==
    \E fault \in {"none", "open"} :
        /\ app.log_path = "stream" \/ Len(app.log_lines) < MaxLogLines
        /\ \E r \in {clear_log(app, fault)} :
              /\ app' = r.app
              /\ lastCall' = [NoCall EXCEPT !.op = "clear_log", !.fault = fault, !.exc = r.exc]
              /\ UNCHANGED <<db, conns, gwOpen, form>>

LoadHistoricoData ==
    \E fault \in {"none", "open"} :
        AppStep("load_historico_data",
                [app |-> load_historico_data(app, fault), exc |-> NoExc, dialog |-> "none"])

ClearHistoricoData ==
    \E confirmed \in BOOLEAN, fault \in {"none", "open"} :
        /\ app.log_path = "stream" \/ Len(app.log_lines) < MaxLogLines
        /\ AppStep("clear_historico_data", clear_historico_data(app, confirmed, fault))

\* logs/app.log is deleted from outside the application; the handler keeps
\* its stream
RemoveLogFile ==
    /\ app.log_path # "missing"
    /\ app' = [app EXCEPT !.log_path = "missing"]
    /\ lastCall' = [NoCall EXCEPT !.op = "remove_log_file"]
    /\ UNCHANGED <<db, conns, gwOpen, form>>

NextLogger ==
    \/ LogAction
    \/ ReadLog
    \/ ClearLog
    \/ LoadHistoricoData
    \/ ClearHistoricoData

SpecLogger == Init /\ [][NextLogger]_vars

NextLogFile ==
    \/ LogAction
    \/ ReadLog
    \/ ClearLog
    \/ LoadHistoricoData
    \/ ClearHistoricoData
    \/ RemoveLogFile

SpecLogFile == Init /\ [][NextLogFile]_vars

(***************************************************************************)
(* The analysis: utils.analisar_pedidos_ia, and the thread main.py runs it *)
(* in.  A thread is at "started" before its first statement, then          *)
(* "analyzing" (the button is set), "returned" (analisar_pedidos_ia gave   *)
(* its text), "except" (in the handler), "finally" and "done".             *)
(***************************************************************************)
MSG_FATAL == "Erro fatal ao tentar analisar os pedidos: "

E_TCL == "TclError: application has been destroyed"

Returned(text) == [kind |-> "str", text |-> text]

Raised(e) == [kind |-> "raise", text |-> e]

\* what client.post and the reading of its response can come to
HttpOutcomes == {"response", "no_response_key", "ConnectError", "HTTPStatusError", "Exception"}

\* the prompt of _get_ia_prompt: the default one, the one cut from README.md,
\* and one cut from a README.md with braces of its own, which str.format refuses
Templates == {"default", "readme", "readme_braces"}

\* models.get_last_n_order_ids(n=5): the name is looked up first
LookupOutcomes ==
    IF ModelsAttr("get_last_n_order_ids") = NoExc
    THEN {"OperationalError", "empty", "ids"}
    ELSE {"AttributeError"}

\* utils._chamar_api_ollama
chamar_api_ollama(http) ==
    CASE http = "response" -> Returned("json_response['response'].strip()")
      [] http = "no_response_key" -> Returned("Erro: Resposta inesperada da API:")
      [] http = "ConnectError" -> Returned("ERRO: Não foi possível conectar ao Ollama.")
      [] http = "HTTPStatusError" -> Returned("ERRO: Falha na API. Status: ")
      [] OTHER -> Returned("ERRO: Ocorreu um erro inesperado:")

\* the body of analisar_pedidos_ia without its except clause
analisar_pedidos_ia_unguarded(lookup, template, http) ==
    IF lookup \in {"AttributeError", "OperationalError"} THEN Raised(lookup)
    ELSE IF lookup = "empty" THEN Returned("Não há pedidos recentes para analisar.")
    ELSE IF template = "readme_braces" THEN Raised("KeyError")
    ELSE chamar_api_ollama(http)

\* utils.analisar_pedidos_ia
analisar_pedidos_ia(lookup, template, http) ==
    IF lookup \in {"AttributeError", "OperationalError"} THEN Returned(MSG_FATAL)
    ELSE IF lookup = "empty" THEN Returned("Não há pedidos recentes para analisar.")
    ELSE IF template = "readme_braces" THEN Returned(MSG_FATAL)
    ELSE chamar_api_ollama(http)

\* DashboardFrame.set_analysis_state
set_analysis_state(d, is_analyzing) ==
    IF is_analyzing
    THEN [d EXCEPT !.analysis_button = "disabled", !.analysis_text_area = "Aguarde, analisando os últimos pedidos com a IA..."]
    ELSE [d EXCEPT !.analysis_button = "normal"]

\* DashboardFrame.set_analysis_result
set_analysis_result(d, result) == [d EXCEPT !.analysis_text_area = result]

WorkerStep(op, w, a) ==
    /\ app' = a
    /\ lastCall' = [NoCall EXCEPT !.op = op, !.pedido_id = w, !.exc = a.workers[w].exc]
    /\ UNCHANGED <<db, conns, gwOpen, form>>

\* App.start_analysis_thread, from the button of the dashboard (which takes
\* no click while disabled) or from the menu "Análise"
StartAnalysisThread ==
    \E source \in {"button", "menu"}, w \in Workers :
        /\ ~app.destroyed
        /\ source = "button" => app.dashboard.analysis_button = "normal"
        /\ app.workers[w].pc \in {"idle", "done"}
        /\ app' = [app EXCEPT !.workers[w] = [NewWorker EXCEPT !.pc = "started"], !.latest = w]
        /\ lastCall' = [NoCall EXCEPT !.op = "start_analysis_thread", !.pedido_id = w,
                                      !.term = source]
        /\ UNCHANGED <<db, conns, gwOpen, form>>

\* _run_ia_analysis, step 1: set_analysis_state(True)
WorkerSetAnalyzing ==
    \E w \in Workers :
        /\ app.workers[w].pc = "started"
        /\ WorkerStep("set_analysis_state",  w,
               IF app.destroyed
               THEN [app EXCEPT !.workers[w].pc = "except", !.workers[w].exc = E_TCL]
               ELSE [app EXCEPT !.workers[w].pc = "analyzing",
                                !.dashboard = set_analysis_state(app.dashboard, TRUE)])

\* _run_ia_analysis, step 2: utils.analisar_pedidos_ia()
WorkerAnalyze ==
    \E w \in Workers, lookup \in LookupOutcomes, template \in Templates, http \in HttpOutcomes :
        /\ app.workers[w].pc = "analyzing"
        /\ \E r \in {analisar_pedidos_ia(lookup, template, http)} :
              /\ app' = IF r.kind = "str"
                        THEN [app EXCEPT !.workers[w].pc = "returned", !.workers[w].resposta = r.text]
                        ELSE [app EXCEPT !.workers[w].pc = "except", !.workers[w].exc = r.text]
              /\ lastCall' = [NoCall EXCEPT !.op = "analisar_pedidos_ia", !.pedido_id = w,
                                            !.term = lookup, !.res = r]
              /\ UNCHANGED <<db, conns, gwOpen, form>>

\* _run_ia_analysis, step 3: set_analysis_result(resposta_ia)
WorkerSetResult ==
    \E w \in Workers :
        /\ app.workers[w].pc = "returned"
        /\ WorkerStep("set_analysis_result", w,
               IF app.destroyed
               THEN [app EXCEPT !.workers[w].pc = "except", !.workers[w].exc = E_TCL]
               ELSE [app EXCEPT !.workers[w].pc = "finally",
                                !.dashboard = set_analysis_result(app.dashboard,
                                                                  app.workers[w].resposta)])

\* _run_ia_analysis, the handler: set_analysis_result(erro_msg); what it
\* raises itself leaves the thread through the finally clause
WorkerExcept ==
    \E w \in Workers :
        /\ app.workers[w].pc = "except"
        /\ WorkerStep("except", w,
               IF app.destroyed
               THEN [app EXCEPT !.workers[w].pc = "finally", !.workers[w].exc = E_TCL]
               ELSE [app EXCEPT !.workers[w].pc = "finally", !.workers[w].exc = NoExc,
                                !.dashboard = set_analysis_result(app.dashboard,
                                                                  "Ocorreu um erro inesperado durante a análise:")])

\* _run_ia_analysis, step 4 in the finally clause: set_analysis_state(False)
WorkerFinally ==
    \E w \in Workers :
        /\ app.workers[w].pc = "finally"
        /\ WorkerStep("finally", w,
               IF app.destroyed
               THEN [app EXCEPT !.workers[w].pc = "done", !.workers[w].exc = E_TCL]
               ELSE [app EXCEPT !.workers[w].pc = "done",
                                !.dashboard = set_analysis_state(app.dashboard, FALSE)])

\* App.on_close_app with no form open: self.destroy()
OnCloseApp ==
    /\ ~app.destroyed
    /\ app' = [app EXCEPT !.destroyed = TRUE]
    /\ lastCall' = [NoCall EXCEPT !.op = "on_close_app"]
    /\ UNCHANGED <<db, conns, gwOpen, form>>

NextAnalysis ==
    \/ StartAnalysisThread
    \/ WorkerSetAnalyzing
    \/ WorkerAnalyze
    \/ WorkerSetResult
    \/ WorkerExcept
    \/ WorkerFinally
    \/ OnCloseApp

SpecAnalysis == Init /\ [][NextAnalysis]_vars

(***************************************************************************)
(* export_utils.py: the export of one order. Amounts are cents; a file is  *)
(* the sequence of its rows, a row the sequence of its cells.              *)
(***************************************************************************)
\* f"{x:.2f}"
Fixed2(x) == <<x \div 100, ".", x % 100>>

\* the orders handed to the export: the total of the header is the sum of
\* Widget and Gadget, or another figure
PedidoInfos ==
    {[id |-> i, data |-> d, total |-> t, cliente_nome |-> "Ana", email |-> e, telefone |-> NULL] :
        i \in {1, 2}, d \in Datas, t \in Totals, e \in Emails}

ItemCabo == [produto |-> "Cabo", quantidade |-> 3, preco_unit |-> 10]

ExportItens ==
    UNION {[1..n -> {ItemWidget, ItemGadget, ItemCabo}] : n \in 0..MaxExportItens}

\* the row of an item in the CSV file
CsvItemRow(item) ==
    <<item.produto, item.quantidade, Fixed2(item.preco_unit),
      Fixed2(item.quantidade * item.preco_unit)>>

export_to_csv(pedido_info, itens_list) ==
    <<<<"DADOS DO PEDIDO">>,
      <<"ID Pedido:", pedido_info.id>>,
      <<"Data:", pedido_info.data>>,
      <<"Total:", FormatTotal(pedido_info.total)>>,
      <<>>,
      <<"DADOS DO CLIENTE">>,
      <<"Nome:", pedido_info.cliente_nome>>,
      <<"E-mail:", pedido_info.email>>,
      <<"Telefone:", pedido_info.telefone>>,
      <<>>,
      <<"ITENS DO PEDIDO">>,
      <<"Produto", "Quantidade", "Preço Unitário (R$)", "Subtotal (R$)">>>>
    \o [i \in 1..Len(itens_list) |-> CsvItemRow(itens_list[i])]

RECURSIVE AddSubtotals(_, _)
\* for item in itens_list: subtotal = qtd * preco; total_pedido += subtotal
AddSubtotals(itens_list, i) ==
    IF i > Len(itens_list) THEN 0
    ELSE itens_list[i].quantidade * itens_list[i].preco_unit + AddSubtotals(itens_list, i + 1)

\* a loop that assigns the subtotal where it should add it
total_pedido_of_last_item(itens_list) ==
    IF itens_list = <<>> THEN 0
    ELSE itens_list[Len(itens_list)].quantidade * itens_list[Len(itens_list)].preco_unit

\* total_pedido after the loop
total_pedido(itens_list) == AddSubtotals(itens_list, 1)

\* the data of the table of the PDF file
export_to_pdf(pedido_info, itens_list) ==
    <<<<"Produto", "Qtd", "Preço Unit. (R$)", "Subtotal (R$)">>>>
    \o [i \in 1..Len(itens_list) |->
          <<itens_list[i].produto, itens_list[i].quantidade, Fixed2(itens_list[i].preco_unit),
            Fixed2(itens_list[i].quantidade * itens_list[i].preco_unit)>>]
    \o <<<<"", "", "TOTAL:", FormatTotal(total_pedido(itens_list))>>>>

\* an export call: the file cannot be written (fault "open") and the error
\* is raised again, or the rows are written
ExportCall(op, pedido_info, itens_list, fault, rows) ==
    [NoCall EXCEPT !.op = op, !.pedido_id = pedido_info.id, !.total = pedido_info.total,
                   !.params = <<pedido_info.email>>, !.itens = itens_list, !.fault = fault,
                   !.exc = IF fault = "open" THEN "OSError" ELSE NoExc,
                   !.res = IF fault = "open" THEN <<>> ELSE rows]

ExportToCsv ==
    \E pedido_info \in PedidoInfos, itens_list \in ExportItens, fault \in {"none", "open"} :
        /\ lastCall' = ExportCall("export_to_csv", pedido_info, itens_list, fault,
                                  export_to_csv(pedido_info, itens_list))
        /\ UNCHANGED <<db, conns, gwOpen, form, app>>

ExportToPdf ==
    \E pedido_info \in PedidoInfos, itens_list \in ExportItens, fault \in {"none", "open"} :
        /\ lastCall' = ExportCall("export_to_pdf", pedido_info, itens_list, fault,
                                  export_to_pdf(pedido_info, itens_list))
        /\ UNCHANGED <<db, conns, gwOpen, form, app>>

NextExport ==
    \/ ExportToCsv
    \/ ExportToPdf

SpecExport == Init /\ [][NextExport]_vars

(***************************************************************************)
(* The claims on the model layer, under Spec.                              *)
(***************************************************************************)
ClienteExists(d, id) == \E r \in d.clientes : r.id = id

PedidoExists(d, id) == \E r \in d.pedidos : r.id = id

ItensOf(d, id) == {r \in d.itens : r.pedido_id = id}

\* the orders without a line item
EmptyOrders(d) == {r.id : r \in {x \in d.pedidos : ItensOf(d, x.id) = {}}}

ValidItens(itens) == Len(itens) >= 1 /\ \A i \in 1..Len(itens) : itens[i].produto # NULL

C2_SaveReadRoundTrip ==
    (/\ lastCall.op = "salvar_pedido_transacional"
     /\ ClienteExists(db, lastCall.cliente_id)
     /\ ValidItens(lastCall.itens))
        => /\ lastCall.exc = NoExc
           /\ \E r \in db.pedidos :
                LET det == get_pedido_details(Store, r.id)
                IN /\ det.exc = NoExc
                   /\ det.ret.kind = "details"
                   /\ det.ret.itens = lastCall.itens
                   /\ det.ret.info[4] = lastCall.total

\* C3: delete_pedido_transacional of an existing order succeeds, and after it
\* neither the pedidos row nor any itens_pedido row of that order exists, the
\* rows of every other order being unchanged.
C3_DeleteRemovesOrderAndItems ==
    [][(lastCall'.op = "delete_pedido_transacional" /\ PedidoExists(db, lastCall'.pedido_id))
           => /\ lastCall'.exc = NoExc
              /\ db'.pedidos = {r \in db.pedidos : r.id # lastCall'.pedido_id}
              /\ db'.itens = {r \in db.itens : r.pedido_id # lastCall'.pedido_id}]_vars

\* C4: delete_client of a customer without orders succeeds and removes the
\* customer; of a customer with an order it fails and changes no row.
C4_CustomerDeletionRestricted ==
    [][(lastCall'.op = "delete_client" /\ ClienteExists(db, lastCall'.cliente_id))
           => IF \E r \in db.pedidos : r.cliente_id = lastCall'.cliente_id
              THEN /\ lastCall'.exc # NoExc \/ ~lastCall'.ret.success
                   /\ db' = db
              ELSE /\ lastCall'.exc = NoExc
                   /\ lastCall'.ret.success
                   /\ ~ClienteExists(db', lastCall'.cliente_id)]_vars

PedidoWrites ==
    {"salvar_pedido_transacional", "editar_pedido_transacional", "delete_pedido_transacional"}

\* C5: no call of salvar_, editar_ or delete_pedido_transacional, returning or
\* raising, leaves an order without line items that was not one before: from
\* a database whose orders all have items, these calls reach no other.
C5_OrderWritesLeaveNoEmptyOrder ==
    [][lastCall'.op \in PedidoWrites => EmptyOrders(db') \subseteq EmptyOrders(db)]_vars

\* C5: an order that has items was edited with an empty item list, or an
\* order was saved with one
C5_Witness ==
    /\ lastCall.op \in {"salvar_pedido_transacional", "editar_pedido_transacional"}
    /\ lastCall.itens = <<>>
    /\ ClienteExists(db, lastCall.cliente_id)
    /\ db.pedidos # {}
    /\ EmptyOrders(db) = {}
    /\ lastCall.op = "editar_pedido_transacional" => PedidoExists(db, lastCall.pedido_id)

\* the place of a name in alphabetical order
NomeRank(n) ==
    CASE n = "Ana" -> 1
      [] n = "Bia" -> 2
      [] OTHER -> 0

\* C10: find_clients("") returns all customers, ordered by name.
C10_EmptyTermReturnsAllByName ==
    (lastCall.op = "find_clients" /\ lastCall.term = "")
        => /\ lastCall.exc = NoExc
           /\ lastCall.ret.kind = "rows"
           /\ Len(lastCall.ret.rows) = Cardinality(db.clientes)
           /\ {lastCall.ret.rows[i] : i \in 1..Len(lastCall.ret.rows)}
                  = {<<r.id, r.nome, r.email, r.telefone>> : r \in db.clientes}
           /\ \A i \in 1..Len(lastCall.ret.rows), j \in 1..Len(lastCall.ret.rows) :
                  i < j => NomeRank(lastCall.ret.rows[i][2]) <= NomeRank(lastCall.ret.rows[j][2])

RECURSIVE SumSubtotals(_)
SumSubtotals(itens) ==
    IF itens = <<>> THEN 0
    ELSE Head(itens).quantidade * Head(itens).preco_unit + SumSubtotals(Tail(itens))

\* C6: whenever _on_save invokes the save callback, the total of the payload
\* is the sum of quantidade x preco_unit over the items of the payload.
C6_PayloadTotalIsSumOfItems ==
    lastCall.op = "on_save_callback" => lastCall.total = SumSubtotals(lastCall.itens)

\* C6: the callback was invoked, and refused, on a form where three items
\* were added and one of them removed
C6_Witness ==
    /\ lastCall.op = "on_save_callback"
    /\ form.open
    /\ form.item_counter = 3
    /\ Len(lastCall.itens) = 2

\* C11: find_clients with a non-empty term returns exactly the customers
\* whose name or email contains the term, whatever the case of the letters.
C11_TermReturnsExactlyMatches ==
    (lastCall.op = "find_clients" /\ lastCall.term # "")
        => /\ lastCall.exc = NoExc
           /\ lastCall.ret.kind = "rows"
           /\ {lastCall.ret.rows[i] : i \in 1..Len(lastCall.ret.rows)}
                  = {<<r.id, r.nome, r.email, r.telefone>> :
                        r \in {x \in db.clientes : Like(x.nome, lastCall.term)
                                                     \/ Like(x.email, lastCall.term)}}

\* the place of a date in the order of the calendar
DateRank(d) ==
    CASE d = "2025-01-09" -> 1
      [] d = "2025-01-10" -> 2
      [] OTHER -> 0

\* C12: an order search with a term and a date range returns, and returns
\* only orders that match the term and lie on or after date_start and on or
\* before date_end, for each of the filters that is given.
C12_FiltersAreConjoined ==
    lastCall.op = "find_pedidos"
        => /\ lastCall.exc = NoExc
           /\ lastCall.ret.kind = "rows"
           /\ \A i \in 1..Len(lastCall.ret.rows) :
                 LET row == lastCall.ret.rows[i]
                 IN /\ lastCall.term # "" => Like(row[2], lastCall.term)
                    /\ lastCall.date_start # "" => DateRank(row[3]) >= DateRank(lastCall.date_start)
                    /\ lastCall.date_end # "" => DateRank(row[3]) <= DateRank(lastCall.date_end)

\* C13: get_pedido_details of an id no order has answers not found (None)
\* after the header query alone; of an existing order it returns the header
\* and exactly the line items of that order.
C13_DetailsOrNotFound ==
    lastCall.op = "get_pedido_details"
        => /\ lastCall.exc = NoExc
           /\ IF PedidoExists(db, lastCall.pedido_id)
              THEN /\ lastCall.ret.kind = "details"
                   /\ lastCall.ret.info[1] = lastCall.pedido_id
                   /\ {lastCall.ret.itens[i] : i \in 1..Len(lastCall.ret.itens)}
                          = {[produto |-> r.produto, quantidade |-> r.quantidade,
                              preco_unit |-> r.preco_unit] : r \in ItensOf(db, lastCall.pedido_id)}
                   /\ Len(lastCall.ret.itens) = Cardinality(ItensOf(db, lastCall.pedido_id))
              ELSE /\ lastCall.ret.kind = "None"
                   /\ Cardinality({i \in 1..Len(lastCall.ev) : lastCall.ev[i] = "execute"}) = 1

\* the first statement an order write sends, as the gateway answers it on
\* the store w
FirstStatement(w, call) ==
    CASE call.op = "salvar_pedido_transacional" ->
           ExecuteQuery(w, Q_INSERT_PEDIDO, <<call.cliente_id, call.data, call.total>>, None, None,
                        {"commit", "fetch_last_row_id"}, "none")
      [] call.op = "editar_pedido_transacional" ->
           ExecuteQuery(w, Q_UPDATE_PEDIDO, <<call.cliente_id, call.data, call.total, call.pedido_id>>,
                        None, None, {"commit"}, "none")
      [] OTHER ->
           ExecuteQuery(w, Q_DELETE_ITENS, <<call.pedido_id>>, None, None, {"commit"}, "none")

\* C25: an order write whose statement fails raises the error of that
\* statement, the first that failed, also when the ROLLBACK of its handler
\* fails too; it does not return as if it had succeeded.
C25_OriginalErrorReachesCaller ==
    [][lastCall'.op \in PedidoWrites
         => \A r \in {FirstStatement(Store, lastCall')} :
               r.exc # NoExc => lastCall'.exc = r.exc
      ]_vars

\* the delete of a stored order has raised, and so did its ROLLBACK
C25_Witness ==
    /\ lastCall.op = "delete_pedido_transacional"
    /\ \E r \in db.pedidos : r.id = lastCall.pedido_id
    /\ lastCall.exc = E_TYPE
    /\ ExecuteQuery(Store, Q_ROLLBACK, <<>>, None, None, {"commit"}, "none").exc # NoExc

\* C26: editar_pedido_transacional of a stored order, for a stored customer
\* and a list of valid items, succeeds, and then the header of the order
\* holds the new values and its items are exactly the new list; a call that
\* raises leaves the header and the items as they were.
C26_EditIsOneTransaction ==
    [][lastCall'.op = "editar_pedido_transacional"
         => /\ (/\ PedidoExists(db, lastCall'.pedido_id)
                /\ ClienteExists(db, lastCall'.cliente_id)
                /\ ValidItens(lastCall'.itens))
                  => /\ lastCall'.exc = NoExc
                     /\ \E r \in db'.pedidos :
                           /\ r.id = lastCall'.pedido_id
                           /\ r.cliente_id = lastCall'.cliente_id
                           /\ r.data = lastCall'.data
                           /\ r.total = lastCall'.total
                     /\ LET its == SortById(ItensOf(db', lastCall'.pedido_id))
                        IN [i \in 1..Len(its) |->
                              [produto |-> its[i].produto, quantidade |-> its[i].quantidade,
                               preco_unit |-> its[i].preco_unit]] = lastCall'.itens
            /\ lastCall'.exc # NoExc => (db'.pedidos = db.pedidos /\ db'.itens = db.itens)
      ]_vars

(***************************************************************************)
(* The claims on the gateway, under SpecGateway.                           *)
(***************************************************************************)
Events(call) == {call.ev[i] : i \in 1..Len(call.ev)}

OwnCall(call) == call.op = "execute_query" /\ call.conn = None /\ call.fault # "connect"

\* what the statement of a gateway call does on the connection it runs on
StatementOf(call) ==
    CursorExecute(db, IF call.conn = None THEN FreshConn ELSE conns[call.conn],
                  WriterBusy(conns, call.conn), call.query, call.params, call.fault)

\* C7 as stated: a call without a connection opens one, executes, commits
\* unless the fetch mode is that of a read (one, all), and closes.
C7_CommitsUnlessReadFetch ==
    OwnCall(lastCall)
        => /\ gwOpen = 0
           /\ lastCall.ev[1] = "connect"
           /\ lastCall.ev[Len(lastCall.ev)] = "close"
           /\ lastCall.exc = NoExc => ("commit" \in Events(lastCall) <=> lastCall.fetch \notin {"one", "all"})

\* C7, amended: a call without a connection opens one, executes, commits
\* whatever the fetch mode, so that the statement's effect is stored, and on
\* every path, return or exception, has closed the connection it opened.
C7_OwnConnectionCommittedAndClosed ==
    [][OwnCall(lastCall')
          => /\ gwOpen' = 0
             /\ lastCall'.ev[1] = "connect"
             /\ lastCall'.ev[Len(lastCall'.ev)] = "close"
             /\ lastCall'.exc = NoExc
                   => /\ "commit" \in Events(lastCall')
                      /\ db' = IF StatementOf(lastCall').c.inTxn THEN StatementOf(lastCall').c.view ELSE db
             /\ lastCall'.exc # NoExc => db' = db]_vars

\* C7: a statement on a connection of the gateway's own failed with an
\* sqlite3 error: rolled back and closed
C7_Witness ==
    /\ OwnCall(lastCall)
    /\ lastCall.exc = E_FOREIGN_KEY
    /\ lastCall.ev = <<"connect", "execute", "rollback", "close">>
    /\ gwOpen = 0

\* C8: a call on the caller's connection commits nothing, rolls nothing back
\* and leaves the connection open, whether the statement succeeds or fails;
\* the effect of the statement is in the caller's open transaction only.
C8_CallerConnectionUntouched ==
    [][(lastCall'.op = "execute_query" /\ lastCall'.conn # None)
          => LET before == conns[lastCall'.conn]
                 after == conns'[lastCall'.conn]
             IN /\ db' = db
                /\ gwOpen' = gwOpen
                /\ after.state = before.state
                /\ before.inTxn => after.inTxn
                /\ (lastCall'.exc # NoExc /\ before.inTxn) => after.view = before.view
                /\ (lastCall'.exc = NoExc /\ IsDml(lastCall'.query))
                      => /\ after.inTxn
                         /\ after.view = RunStatement(Seen(lastCall'.conn), TRUE, lastCall'.query,
                                                      lastCall'.params).db
                         /\ after.view # db]_vars

\* C8: a statement failed on the caller's connection, whose transaction still
\* holds the rows written before
C8_Witness ==
    /\ lastCall.op = "execute_query"
    /\ lastCall.conn # None
    /\ lastCall.exc = E_FOREIGN_KEY
    /\ conns[lastCall.conn].state = "open"
    /\ conns[lastCall.conn].inTxn
    /\ conns[lastCall.conn].view.clientes # db.clientes

\* C9: a call that fails raises the error of the failing step itself, leaves
\* the stored data as it was, and rolls back the connection only if it opened
\* it: the caller's transaction keeps what it held.
C9_FailureReraisedOwnRolledBack ==
    [][(lastCall'.op = "execute_query" /\ lastCall'.exc # NoExc)
          => LET own == lastCall'.conn = None
                 x == StatementOf(lastCall')
             IN /\ lastCall'.exc = (IF own /\ lastCall'.fault = "connect" THEN E_IO
                                    ELSE IF x.err # NoExc THEN x.err ELSE E_IO)
                /\ db' = db
                /\ own => /\ gwOpen' = 0
                          /\ (IsSqliteError(lastCall'.exc) /\ lastCall'.fault # "connect")
                                => "rollback" \in Events(lastCall')
                /\ ~own => /\ "rollback" \notin Events(lastCall')
                           /\ conns[lastCall'.conn].inTxn
                                 => /\ conns'[lastCall'.conn].inTxn
                                    /\ conns'[lastCall'.conn].view = conns[lastCall'.conn].view]_vars

\* C9: a write on a connection of the gateway's own failed on the lock of the
\* caller's transaction, which is still open with its rows
C9_Witness ==
    /\ OwnCall(lastCall)
    /\ lastCall.exc = E_LOCKED
    /\ "rollback" \in Events(lastCall)
    /\ \E k \in ConnIds : conns[k].inTxn /\ conns[k].view # db

(***************************************************************************)
(* The claims on the controller, under SpecApp.                            *)
(***************************************************************************)
\* the cents a card of the dashboard shows
CentsShown(text) == text[2] * 100 + text[4]

\* C14: after a refresh the card of the average shows 0 when the current
\* month has no order, and otherwise the sum of the totals of the month's
\* orders divided by their number, to the cent.
C14_AverageShownAfterRefresh ==
    lastCall.op = "load_dashboard_data"
        => LET mes == PedidosMesAtual(db)
               n == Cardinality(mes)
               shown == app.dashboard.ticket_medio_var
           IN /\ Len(shown) = 4
              /\ IF n = 0 THEN CentsShown(shown) = 0
                 ELSE /\ 2 * (CentsShown(shown) * n - SumTotals(mes)) <= n
                      /\ 2 * (SumTotals(mes) - CentsShown(shown) * n) <= n

\* C27: while no customer form and no order form is open, none having been
\* opened or each having been closed, the controller tracks no form: its
\* current_open_form is None, is_form_dirty is false, and the buttons New,
\* Edit and Delete are enabled.
C27_TrackingReleasedWithoutForm ==
    (~app.cliente_form.open /\ ~form.open)
        => /\ app.current_open_form = None
           /\ ~app.is_form_dirty
           /\ \A b \in DOMAIN app.clientes_buttons : app.clientes_buttons[b] = "normal"

EntryEnd(lines) ==
    CHOOSE i \in 1..Len(lines) :
        /\ i = Len(lines) \/ Len(lines[i + 1]) = 2
        /\ \A j \in 2..i : Len(lines[j]) = 1

RECURSIVE Entries(_)
Entries(lines) ==
    IF lines = <<>> THEN <<>>
    ELSE <<SubSeq(lines, 1, EntryEnd(lines))>>
             \o Entries(SubSeq(lines, EntryEnd(lines) + 1, Len(lines)))

RECURSIVE Flatten(_)
Flatten(seqs) == IF seqs = <<>> THEN <<>> ELSE Head(seqs) \o Flatten(Tail(seqs))

\* C15: what read_log returns is the entries of the log, each as log_action
\* wrote it, from the newest to the oldest.
C15_ReadReturnsEntriesNewestFirst ==
    (lastCall.op = "read_log" /\ lastCall.fault = "none")
        => lastCall.res = Flatten(Reverse(Entries(LogFile(app))))

\* C16: clear_log, when it succeeds, leaves exactly one entry in the log, the
\* marker "Histórico de logs limpo."; the history screen then shows that
\* entry alone; an entry logged later goes after the marker in the file, so
\* read_log returns it before the marker.
C16_ClearLeavesOnlyTheMarker ==
    [][/\ (lastCall'.op = "clear_log" /\ lastCall'.exc = NoExc)
            => LogFile(app') = Format(MSG_CLEARED)
       /\ (lastCall'.op = "clear_historico_data" /\ lastCall'.res = "showinfo")
            => /\ LogFile(app') = Format(MSG_CLEARED)
               /\ app'.historico.log_text_area = Format(MSG_CLEARED)
       /\ (lastCall'.op = "log_action" /\ LogFile(app) # <<>>
              /\ Head(LogFile(app)) = Head(Format(MSG_CLEARED)))
            => /\ Head(LogFile(app')) = Head(Format(MSG_CLEARED))
               /\ Len(LogFile(app')) > Len(LogFile(app))
               /\ read_log(app', "none")[Len(LogFile(app'))] = Head(Format(MSG_CLEARED))
               /\ read_log(app', "none")[1] # Head(Format(MSG_CLEARED))
      ]_vars

\* the log held entries the history screen had shown, and clear_log has
\* just replaced them by the marker
C16_Witness ==
    /\ lastCall.op = "clear_log"
    /\ lastCall.exc = NoExc
    /\ Len(app.historico.log_text_area) >= 2
    /\ app.historico.log_text_area[1] # Head(Format(MSG_CLEARED))
    /\ LogFile(app) = Format(MSG_CLEARED)

\* C17: read_log returns the empty string when the log file does not exist.
C17_MissingFileReadsEmpty ==
    (lastCall.op = "read_log" /\ lastCall.fault = "none" /\ app.log_path = "missing")
        => lastCall.res = <<>>

(***************************************************************************)
(* The claims on the analysis, under SpecAnalysis.                         *)
(***************************************************************************)
\* C18: while the window is there, the button of the analysis is disabled
\* whenever a thread of the analysis has not finished, and enabled when all
\* have.
C18_ButtonDisabledWhileAnyWorkerRuns ==
    ~app.destroyed
        => /\ (\E w \in Workers : app.workers[w].pc \in {"analyzing", "returned", "except"})
                => app.dashboard.analysis_button = "disabled"
           /\ (\A w \in Workers : app.workers[w].pc \in {"idle", "done"})
                => app.dashboard.analysis_button = "normal"

\* C19: a thread writes the text analisar_pedidos_ia gave it to the dashboard
\* only when the window is there and no analysis was started after its own.
C19_OnlyTheLatestWorkerWrites ==
    [][\A w \in Workers :
          (app.workers[w].pc = "returned" /\ app'.workers[w].pc = "finally")
              => (~app.destroyed /\ app.latest = w)]_vars

\* C20: analisar_pedidos_ia gives a text back whatever the lookup of the
\* orders, the prompt and the HTTP call come to: nothing it raises reaches
\* the thread.
C20_AnalysisAlwaysReturnsAString ==
    /\ lastCall.op = "analisar_pedidos_ia" => lastCall.res.kind = "str"
    /\ \A w \in Workers :
          /\ app.workers[w].pc = "returned" => app.workers[w].resposta # ""
          /\ app.workers[w].pc = "except" => app.workers[w].exc = E_TCL

\* the lookup of the orders has failed and the thread holds the error text
C20_Witness ==
    /\ lastCall.op = "analisar_pedidos_ia"
    /\ lastCall.term = "AttributeError"
    /\ lastCall.res = Returned(MSG_FATAL)
    /\ app.workers[lastCall.pedido_id].pc = "returned"

(***************************************************************************)
(* The claims on the two forms, under SpecForm.                            *)
(***************************************************************************)
ValidItem(item) == item.produto # "" /\ item.quantidade > 0 /\ item.preco_unit > 0

C22_FailedSaveKeepsTheForm ==
    [][/\ (lastCall'.op = "cliente_on_save_callback" /\ lastCall'.exc # NoExc)
            => (app'.cliente_form = app.cliente_form /\ app'.cliente_form.open)
       /\ (lastCall'.op = "cliente_on_save_callback" /\ ~app'.cliente_form.open)
            => lastCall'.exc = NoExc
       /\ (lastCall'.op = "on_save_callback" /\ lastCall'.res # "True")
            => (form' = form /\ form'.open)
       /\ (lastCall'.op = "on_save_callback" /\ ~form'.open)
            => lastCall'.res = "True"
      ]_vars

\* the callback of the customer form has raised on texts the user typed
C22_Witness ==
    /\ lastCall.op = "cliente_on_save_callback"
    /\ lastCall.exc # NoExc
    /\ app.cliente_form.open
    /\ app.cliente_form.is_dirty
    /\ ~lastCall.res.email.none

CellCents(cell) == cell[1] * 100 + cell[3]

RECURSIVE SumCells(_, _)
SumCells(rows, i) == IF i > Len(rows) THEN 0 ELSE CellCents(rows[i][4]) + SumCells(rows, i + 1)

\* the rows of the items in an exported file
ItemRowsOf(call) ==
    IF call.op = "export_to_csv" THEN SubSeq(call.res, 13, Len(call.res))
    ELSE SubSeq(call.res, 2, Len(call.res) - 1)

C29_AtMostOneWorkerRuns ==
    Cardinality({w \in Workers : app.workers[w].pc \notin {"idle", "done"}}) <= 1

\* the rows of the item table and the entries of itens_tree_data agree, no
\* id occurs twice or is still to be given out, and the total shown is the
\* sum over the entries
ItemsConsistent(f) ==
    f.open
        => /\ f.itens_tree = [i \in 1..Len(f.itens_tree_data) |-> f.itens_tree_data[i][1]]
           /\ \A i, j \in 1..Len(f.itens_tree) : f.itens_tree[i] = f.itens_tree[j] => i = j
           /\ \A i \in 1..Len(f.itens_tree) :
                 \E n \in 0..(f.item_counter - 1) : f.itens_tree[i] = ItemId(n)
           /\ \E sum \in {SumFrom(f.itens_tree_data, 1)} :
                 /\ f.total_var = FormatTotal(sum)
                 /\ CentsShown(f.total_var) = sum

\* C30: in the order form the rows of the item table and the entries of
\* itens_tree_data carry the same ids, item_counter never decreases and no id
\* is given twice, a removal takes out the selected item and no other, and
\* the total shown is the sum of quantidade x preco_unit over the entries.
C30_ItemTableMatchesItsData ==
    /\ ItemsConsistent(form)
    /\ [][/\ ItemsConsistent(form')
          /\ (form.open /\ form'.open) => form'.item_counter >= form.item_counter
          /\ (lastCall'.op = "_adicionar_item" /\ form'.item_counter # form.item_counter)
                => /\ form'.item_counter = form.item_counter + 1
                   /\ form'.itens_tree = Append(form.itens_tree, ItemId(form.item_counter))
                   /\ ~\E i \in 1..Len(form.itens_tree) : form.itens_tree[i] = ItemId(form.item_counter)
          /\ (lastCall'.op = "_remover_item" /\ form.selection # <<>>)
                => /\ Len(form'.itens_tree_data) = Len(form.itens_tree_data) - 1
                   /\ \A i \in 1..Len(form.itens_tree_data) :
                         (\E j \in 1..Len(form'.itens_tree_data) :
                              form'.itens_tree_data[j] = form.itens_tree_data[i])
                           <=> form.itens_tree_data[i][1] # form.selection[1]
         ]_vars

\* an item was added after the first one was removed: its id is a new one
C30_Witness ==
    /\ form.open
    /\ lastCall.op = "_adicionar_item"
    /\ form.item_counter = 2
    /\ form.itens_tree = <<ItemId(1)>>
    /\ CentsShown(form.total_var) > 0

====
